---------------------------- MODULE Spec2Model ----------------------------
(***************************************************************************)
(* Model of the index-level DockerMCPOrchestrator (src/src/index.ts): the  *)
(* per-endpoint connection lifecycle, the request/response correlation of  *)
(* sendMCPRequest / handleMCPResponse, the periodic health check and the   *)
(* reconnect scheduling.                                                   *)
(*                                                                         *)
(* The program is single threaded: every action below is one macrotask of  *)
(* the event loop (an I/O callback or a timer callback) together with all  *)
(* the promise continuations (microtasks) it makes runnable.               *)
(*                                                                         *)
(* Handlers are written as operators from a state record s to the state    *)
(* record after the handler, so that a handler that calls another one is   *)
(* the composition of the two.  Cur is the record of the variables and     *)
(* Commit(s) makes s the next state.                                       *)
(*                                                                         *)
(* Time is in milliseconds.  Timers are kept as the time remaining until   *)
(* they are due; Tick lets TickMs pass and is enabled only when no timer   *)
(* is due (a due timer runs before more time passes).                      *)
(***************************************************************************)
EXTENDS Integers, Sequences, FiniteSets, TLC

VARIABLES
    clients,            \* every MCPClient object created so far, by creation order
    cycles,             \* reconnect timers and connectToDockerMCP calls in flight
    mcpClients,         \* DockerMCPOrchestrator.mcpClients: name -> client (0: no entry)
    reconnectAttempts,  \* DockerMCPOrchestrator.reconnectAttempts: name -> number
    healthCheckInterval,\* time until the health interval fires; NoTimer: not armed
    stopped,            \* stop() has been called
    failed,             \* history: reconnection cycles that failed since the endpoint
                        \* was last Ready
    dropped,            \* history: messages that handleMCPResponse dropped while calls
                        \* were pending on the client
                        \* (both NotCounted in the specifications that keep no history)
    batch,              \* the orchestrateTask call in progress: its execution plan,
                        \* the promise of every step and the results array
    reader,             \* the frame reader (messageBuffer and the messages handed to
                        \* handleMCPResponse) of two clients whose processes write
                        \* the same bytes; used by SpecFrames only
    lastHealthCheck,    \* MCPClient.lastHealthCheck of every client: the id of the
                        \* ping whose success wrote it, standing for the Date.now()
                        \* read then (0: undefined; NotFollowed in the
                        \* specifications that do not follow it)
    modular             \* the modular orchestrator (unnamed/part_002): the position of
                        \* the connect loop of its initialize(), the insertion order
                        \* of its mcpClients and its health rounds in progress; used
                        \* by SpecModular only

vars == <<clients, cycles, mcpClients, reconnectAttempts, healthCheckInterval,
          stopped, failed, dropped, batch, reader, lastHealthCheck, modular>>

--------------------------------------------------------------------------
(* Bounds of the model *)

\* MCPClient objects (spawned processes) over a run
MaxClients == 2
\* requests issued on one MCPClient
MaxRequestId == 4
\* reconnect timers and connects in flight at once
MaxCycles == 2
\* the history counters stop counting here
MaxFailed == 7
MaxDropped == 1

(* Program constants *)

maxReconnectAttempts == 5
BaseDelayMs == 5000
CapDelayMs == 60000
DefaultTimeoutMs == 30000
ReadyTimeoutMs == 10000
HealthIntervalMs == 30000

\* the step of the model's clock: the smallest delay of the program
TickMs == BaseDelayMs

NoTimer == 0 - 1
NotCounted == 0 - 1
\* lastHealthCheck in the specifications that do not follow it
NotFollowed == <<>>

\* mcp-config.json of the run: one endpoint, with a healthCheck.timeout
Config == [name |-> "alpha", timeout |-> 10000]
Endpoints == {Config.name}

--------------------------------------------------------------------------
(* The state record *)

Cur == [clients |-> clients, cycles |-> cycles, mcpClients |-> mcpClients,
        reconnectAttempts |-> reconnectAttempts,
        healthCheckInterval |-> healthCheckInterval,
        stopped |-> stopped, failed |-> failed, dropped |-> dropped,
        batch |-> batch, lastHealthCheck |-> lastHealthCheck, modular |-> modular]

WithinBounds(s) ==
    /\ Len(s.clients) <= MaxClients
    /\ Len(s.cycles) <= MaxCycles
    /\ \A c \in DOMAIN s.clients : s.clients[c].requestId <= MaxRequestId

Min(a, b) == IF a <= b THEN a ELSE b

RECURSIVE Pow2(_)
Pow2(n) == IF n = 0 THEN 1 ELSE 2 * Pow2(n - 1)

RemoveAt(seq, k) == [i \in 1..(Len(seq) - 1) |-> IF i < k THEN seq[i] ELSE seq[i + 1]]

\* the cycle whose connectToDockerMCP created client c (0: none in flight)
CycleOf(s, c) ==
    IF \E k \in DOMAIN s.cycles : s.cycles[k].client = c
    THEN CHOOSE k \in DOMAIN s.cycles : s.cycles[k].client = c
    ELSE 0


--------------------------------------------------------------------------
(* Reconnection: scheduleReconnect and the two callers of connectToDockerMCP *)

\* ReconnectDelay without the cap of Math.min
ReconnectDelay_uncapped(attempts) == BaseDelayMs * Pow2(attempts)

\* Math.min(5000 * Math.pow(2, attempts), 60000)
ReconnectDelay(attempts) == Min(BaseDelayMs * Pow2(attempts), CapDelayMs)

\* scheduleReconnect(client): arms the timer of a new cycle unless the client
\* still holds a process handle or the attempts are used up.  The timer's
\* closure keeps client and the value of attempts read here.
scheduleReconnect(s, c) ==
    IF s.clients[c].process THEN s
    ELSE LET attempts == s.reconnectAttempts[s.clients[c].name] IN
         IF attempts >= maxReconnectAttempts THEN s
         ELSE [s EXCEPT !.cycles = Append(@,
                  [kind |-> "reconnect", name |-> s.clients[c].name,
                   attempts |-> attempts, from |-> c,
                   phase |-> "timer", rem |-> ReconnectDelay(attempts),
                   waited |-> 0, client |-> 0])]

\* startHealthChecks(): setInterval(..., 30000)
startHealthChecks(s) == [s EXCEPT !.healthCheckInterval = HealthIntervalMs]

\* initialize(): await initializeMCPs() (Promise.allSettled over the startup
\* connects), then startHealthChecks()
initializeSettled(s, kind) ==
    IF kind = "startup" /\ \A k \in DOMAIN s.cycles : s.cycles[k].kind # "startup"
    THEN startHealthChecks(s)
    ELSE s

\* connectFailed that counts every failure on the first endpoint of the config
connectFailed_firstEndpoint(s, k) ==
    LET cyc  == s.cycles[k]
        name == Config.name
        s1   == [s EXCEPT !.cycles = RemoveAt(@, k)]
    IN  IF cyc.kind = "startup"
        THEN initializeSettled([s1 EXCEPT !.reconnectAttempts[name] = 1], "startup")
        ELSE scheduleReconnect(
                 [s1 EXCEPT !.reconnectAttempts[name] = cyc.attempts + 1,
                            !.failed = IF @ = NotCounted THEN @ ELSE Min(@ + 1, MaxFailed)],
                 cyc.from)

\* connectFailed of a timer callback that adds 1 to the counter it reads when
\* the connect has failed, not to the value its closure kept
connectFailed_countsCurrent(s, k) ==
    LET cyc  == s.cycles[k]
        name == cyc.name
        s1   == [s EXCEPT !.cycles = RemoveAt(@, k)]
    IN  IF cyc.kind = "startup"
        THEN initializeSettled([s1 EXCEPT !.reconnectAttempts[name] = 1], "startup")
        ELSE scheduleReconnect(
                 [s1 EXCEPT !.reconnectAttempts[name] = @ + 1,
                            !.failed = IF @ = NotCounted THEN @ ELSE Min(@ + 1, MaxFailed)],
                 cyc.from)

\* connectToDockerMCP of cycle k threw: the catch block of its caller, which is
\* initializeMCPs (set 1) or the timer callback of scheduleReconnect
\* (set attempts + 1, then scheduleReconnect(client) again)
connectFailed(s, k) ==
    LET cyc  == s.cycles[k]
        name == cyc.name
        s1   == [s EXCEPT !.cycles = RemoveAt(@, k)]
    IN  IF cyc.kind = "startup"
        THEN initializeSettled([s1 EXCEPT !.reconnectAttempts[name] = 1], "startup")
        ELSE scheduleReconnect(
                 [s1 EXCEPT !.reconnectAttempts[name] = cyc.attempts + 1,
                            !.failed = IF @ = NotCounted THEN @ ELSE Min(@ + 1, MaxFailed)],
                 cyc.from)

\* the handshake of cycle k succeeded: the end of initializeMCPClient
\* (isReady = true), the end of connectToDockerMCP (mcpClients.set) and the
\* caller's reconnectAttempts.set(name, 0)
connectSucceeded(s, k) ==
    LET cyc == s.cycles[k]
        c   == cyc.client
        name == s.clients[c].name
    IN  initializeSettled(
            [s EXCEPT !.clients[c].isReady = TRUE,
                      !.mcpClients[name] = c,
                      !.reconnectAttempts[name] = 0,
                      !.cycles = RemoveAt(@, k),
                      !.failed = IF @ = NotCounted THEN @ ELSE 0],
            cyc.kind)

--------------------------------------------------------------------------
(* Correlation: sendMCPRequest, its timeout and write callbacks,           *)
(* handleMCPResponse, and what the awaiting caller does with the outcome   *)

\* client.process?.stdin
Connected(s, c) == s.clients[c].process

\* client.config.healthCheck?.timeout || 30000
TimeoutMs == IF Config.timeout # 0 THEN Config.timeout ELSE DefaultTimeoutMs

\* JSON.stringify(request) + "\n" as written to stdin: the id of the request
\* and whether a newline ends it
Request(id) == [id |-> id, nl |-> TRUE]

\* sendMCPRequest arming its timer with the wrong duration (one clock step)
sendMCPRequest_shortTimer(s, c, method, caller) ==
    LET id == s.clients[c].requestId + 1 IN
    [s EXCEPT !.clients[c].requestId = id,
              !.clients[c].pendingRequests = @ \cup {id},
              !.clients[c].stdin = Append(@, Request(id)),
              !.clients[c].calls = (id :> [method |-> method, caller |-> caller,
                                           slot |-> "unresolved",
                                           timeout |-> TickMs, age |-> 0,
                                           writeCb |-> TRUE]) @@ @]

\* sendMCPRequest taking its id from the number of pending calls instead of
\* the counter
sendMCPRequest_sizeId(s, c, method, caller) ==
    LET id == Cardinality(s.clients[c].pendingRequests) + 1 IN
    [s EXCEPT !.clients[c].requestId = id,
              !.clients[c].pendingRequests = @ \cup {id},
              !.clients[c].stdin = Append(@, Request(id)),
              !.clients[c].calls = (id :> [method |-> method, caller |-> caller,
                                           slot |-> "unresolved",
                                           timeout |-> TimeoutMs, age |-> 0,
                                           writeCb |-> TRUE]) @@ @]

\* sendMCPRequest whose write overtakes the requests written before it
sendMCPRequest_writeOvertakes(s, c, method, caller) ==
    LET id == s.clients[c].requestId + 1 IN
    [s EXCEPT !.clients[c].requestId = id,
              !.clients[c].pendingRequests = @ \cup {id},
              !.clients[c].stdin = <<Request(id)>> \o @,
              !.clients[c].calls = (id :> [method |-> method, caller |-> caller,
                                           slot |-> "unresolved",
                                           timeout |-> TimeoutMs, age |-> 0,
                                           writeCb |-> TRUE]) @@ @]

\* sendMCPRequest that arms no timer
sendMCPRequest_noTimer(s, c, method, caller) ==
    LET id == s.clients[c].requestId + 1 IN
    [s EXCEPT !.clients[c].requestId = id,
              !.clients[c].pendingRequests = @ \cup {id},
              !.clients[c].stdin = Append(@, Request(id)),
              !.clients[c].calls = (id :> [method |-> method, caller |-> caller,
                                           slot |-> "unresolved",
                                           timeout |-> NoTimer, age |-> 0,
                                           writeCb |-> TRUE]) @@ @]

\* sendMCPRequest past its not-connected check: ++requestId, setTimeout,
\* pendingRequests.set, stdin.write.  writeCb: the write callback has not run.
sendMCPRequest(s, c, method, caller) ==
    LET id == s.clients[c].requestId + 1 IN
    [s EXCEPT !.clients[c].requestId = id,
              !.clients[c].pendingRequests = @ \cup {id},
              !.clients[c].stdin = Append(@, Request(id)),
              !.clients[c].calls = (id :> [method |-> method, caller |-> caller,
                                           slot |-> "unresolved",
                                           timeout |-> TimeoutMs, age |-> 0,
                                           writeCb |-> TRUE]) @@ @]

\* initializeMCPClient that starts the handshake only once no other startup
\* connect is in flight (a startup that connects the endpoints in turn)
initializeMCPClient_afterOthers(s, c) ==
    LET k == CycleOf(s, c) IN
    IF \E j \in DOMAIN s.cycles : j # k /\ s.cycles[j].kind = "startup"
    THEN s
    ELSE IF Connected(s, c)
    THEN sendMCPRequest([s EXCEPT !.cycles[k].phase = "initialize", !.cycles[k].rem = NoTimer],
                        c, "initialize", "initializeMCPClient")
    ELSE connectFailed([s EXCEPT !.cycles[k].rem = NoTimer], k)

\* initializeMCPClient, first half: send initialize (rejected at once when the
\* client has no process)
initializeMCPClient(s, c) ==
    LET k == CycleOf(s, c) IN
    IF Connected(s, c)
    THEN sendMCPRequest([s EXCEPT !.cycles[k].phase = "initialize", !.cycles[k].rem = NoTimer],
                        c, "initialize", "initializeMCPClient")
    ELSE connectFailed([s EXCEPT !.cycles[k].rem = NoTimer], k)

\* initializeMCPClient, second half: initialize resolved, send initialized
sendInitialized(s, c) ==
    LET k == CycleOf(s, c) IN
    IF Connected(s, c)
    THEN sendMCPRequest([s EXCEPT !.cycles[k].phase = "initialized"],
                        c, "initialized", "initializeMCPClient")
    ELSE connectFailed(s, k)

\* the periodic health check after its await: client.lastHealthCheck = Date.now()
healthCheckPassed(s, c, id) ==
    IF s.lastHealthCheck = NotFollowed THEN s
    ELSE [s EXCEPT !.lastHealthCheck[c] = id]

\* the catch block of the periodic health check
healthCheckFailed(s, c) ==
    scheduleReconnect([s EXCEPT !.clients[c].isReady = FALSE], c)

--------------------------------------------------------------------------
(* Fan-out: orchestrateTask runs the steps of its execution plan through   *)
(* executeTask, all at once (parallel, Promise.all) or one after the other *)
(* (sequential, a for loop that awaits each step).                         *)

\* no orchestrateTask call is in progress
NoBatch ==
    [phase |-> "none", parallel |-> FALSE, plan |-> <<>>, state |-> <<>>,
     call |-> <<>>, promised |-> <<>>, results |-> <<>>]

\* the ExecutionResult of step i of the plan; step stands for its stepId
\* (mcp_tool: the tools of the steps of one plan differ)
ExecutionResult(i, mcp, status, error) ==
    [step |-> i, mcp |-> mcp, status |-> status, error |-> error]

NoResult == ExecutionResult(0, "", "", "")

RECURSIVE executeStep(_, _)

\* stepSettled that stops the sequential loop at the first failed step
stepSettled_stopOnError(s, i, result) ==
    LET s1 == [s EXCEPT !.batch.state[i] = "settled", !.batch.promised[i] = result] IN
    IF s.batch.parallel
    THEN IF \A j \in DOMAIN s1.batch.state : s1.batch.state[j] = "settled"
         THEN [s1 EXCEPT !.batch.results = s1.batch.promised, !.batch.phase = "done"]
         ELSE s1
    ELSE LET s2 == [s1 EXCEPT !.batch.results = Append(@, result)] IN
         IF i < Len(s.batch.plan) /\ result.status # "error"
         THEN executeStep(s2, i + 1)
         ELSE [s2 EXCEPT !.batch.phase = "done"]

\* stepSettled that collects the results of a parallel batch in the order the
\* steps complete
stepSettled_completionOrder(s, i, result) ==
    LET s1 == [s EXCEPT !.batch.state[i] = "settled", !.batch.promised[i] = result,
                        !.batch.results = Append(@, result)] IN
    IF s.batch.parallel
    THEN IF \A j \in DOMAIN s1.batch.state : s1.batch.state[j] = "settled"
         THEN [s1 EXCEPT !.batch.phase = "done"]
         ELSE s1
    ELSE IF i < Len(s.batch.plan)
         THEN executeStep(s1, i + 1)
         ELSE [s1 EXCEPT !.batch.phase = "done"]

\* the promise of executeTask for step i resolves with result.  parallel:
\* Promise.all resolves once every promise has, with the results in the order
\* of the promises, and results.push(...) takes them all.  sequential: the
\* await returns, results.push(result), and the loop goes on to the next step.
stepSettled(s, i, result) ==
    LET s1 == [s EXCEPT !.batch.state[i] = "settled", !.batch.promised[i] = result] IN
    IF s.batch.parallel
    THEN IF \A j \in DOMAIN s1.batch.state : s1.batch.state[j] = "settled"
         THEN [s1 EXCEPT !.batch.results = s1.batch.promised, !.batch.phase = "done"]
         ELSE s1
    ELSE LET s2 == [s1 EXCEPT !.batch.results = Append(@, result)] IN
         IF i < Len(s.batch.plan)
         THEN executeStep(s2, i + 1)
         ELSE [s2 EXCEPT !.batch.phase = "done"]

\* the entry of mcpClients for a name (0: mcpClients.get gives undefined)
ClientOf(s, name) == IF name \in DOMAIN s.mcpClients THEN s.mcpClients[name] ELSE 0

\* executeTask without its !client?.isReady check
executeStep_noReadyCheck(s, i) ==
    LET name == s.batch.plan[i]
        c    == ClientOf(s, name)
    IN  IF c = 0
        THEN stepSettled(s, i, ExecutionResult(i, name, "error", "MCP not available"))
        ELSE IF ~Connected(s, c)
        THEN stepSettled(s, i, ExecutionResult(i, name, "error", "not connected"))
        ELSE LET s1 == sendMCPRequest(s, c, "tools/call", "orchestrateTask") IN
             [s1 EXCEPT !.batch.state[i] = "pending",
                        !.batch.call[i] = <<c, s1.clients[c].requestId>>]

\* executeTask(step.mcp, step.tool, step.params) for step i of the plan, up to
\* its await of sendMCPRequest
executeStep(s, i) ==
    LET name == s.batch.plan[i]
        c    == ClientOf(s, name)
    IN  IF c = 0 \/ ~s.clients[c].isReady
        THEN stepSettled(s, i, ExecutionResult(i, name, "error", "MCP not available"))
        ELSE IF ~Connected(s, c)
        THEN stepSettled(s, i, ExecutionResult(i, name, "error", "not connected"))
        ELSE LET s1 == sendMCPRequest(s, c, "tools/call", "orchestrateTask") IN
             [s1 EXCEPT !.batch.state[i] = "pending",
                        !.batch.call[i] = <<c, s1.clients[c].requestId>>]

\* callSettled of an executeTask that sends the request again when it failed
callSettled_retries(s, c, id, outcome) ==
    LET steps == {i \in DOMAIN s.batch.call :
                     s.batch.call[i] = <<c, id>> /\ s.batch.state[i] = "pending"}
    IN  IF steps = {} THEN s
        ELSE LET i == CHOOSE j \in steps : TRUE IN
             IF outcome = "ok"
             THEN stepSettled(s, i, ExecutionResult(i, s.batch.plan[i], "success", ""))
             ELSE executeStep(s, i)

\* executeTask after its await: the call (c, id) of a step settled with outcome
callSettled(s, c, id, outcome) ==
    LET steps == {i \in DOMAIN s.batch.call :
                     s.batch.call[i] = <<c, id>> /\ s.batch.state[i] = "pending"}
    IN  IF steps = {} THEN s
        ELSE LET i == CHOOSE j \in steps : TRUE IN
             stepSettled(s, i,
                 IF outcome = "ok"
                 THEN ExecutionResult(i, s.batch.plan[i], "success", "")
                 ELSE ExecutionResult(i, s.batch.plan[i], "error", outcome))

\* executionPlan.map(executeTask): every step is started, in plan order
RECURSIVE executeAll(_, _)
executeAll(s, i) ==
    IF i > Len(s.batch.plan) THEN s ELSE executeAll(executeStep(s, i), i + 1)

\* orchestrateTask from "4. Execute plan" on
orchestrateTask(s, plan, parallel) ==
    LET s0 == [s EXCEPT !.batch =
                  [phase |-> "running", parallel |-> parallel, plan |-> plan,
                   state |-> [i \in DOMAIN plan |-> "notIssued"],
                   call |-> [i \in DOMAIN plan |-> <<0, 0>>],
                   promised |-> [i \in DOMAIN plan |-> NoResult],
                   results |-> <<>>]]
    IN  IF parallel THEN executeAll(s0, 1) ELSE executeStep(s0, 1)

--------------------------------------------------------------------------
(* The modular orchestrator (unnamed/part_002 with src/src/mcpClient):     *)
(* initialize() connects the configured endpoints one after the other,     *)
(* each with connectToMCP and a handshake through the sendMCPRequest of    *)
(* mcp_client.ts (the same code as the one of index.ts), then arms the     *)
(* health interval, whose callback pings the registered clients one after  *)
(* the other through the class's own sendRequest.  No exit handler is      *)
(* installed and nothing reconnects.                                       *)

\* NewClient whose request counter does not restart at 0
NewClient_counterGoesOn(name) ==
    [name |-> name, process |-> TRUE, isReady |-> FALSE, requestId |-> 1,
     pendingRequests |-> {}, calls |-> [i \in {} |-> 0],
     exited |-> FALSE, stdoutOpen |-> TRUE, killed |-> FALSE, stdin |-> <<>>]

\* const client: MCPClient = {...}; client.process = spawn(...)
NewClient(name) ==
    [name |-> name, process |-> TRUE, isReady |-> FALSE, requestId |-> 0,
     pendingRequests |-> {}, calls |-> [i \in {} |-> 0],
     exited |-> FALSE, stdoutOpen |-> TRUE, killed |-> FALSE, stdin |-> <<>>]

\* not the modular orchestrator
NoModular == [configs |-> <<>>, at |-> 0, client |-> 0, order |-> <<>>, rounds |-> <<>>]

\* sendRequest: ++requestId, the payload without a newline, setTimeout,
\* pendingRequests.set, process?.stdin?.write
sendRequest(s, c, method, caller) ==
    LET id == s.clients[c].requestId + 1 IN
    [s EXCEPT !.clients[c].requestId = id,
              !.clients[c].pendingRequests = @ \cup {id},
              !.clients[c].stdin = IF Connected(s, c)
                                   THEN Append(@, [id |-> id, nl |-> FALSE]) ELSE @,
              !.clients[c].calls = (id :> [method |-> method, caller |-> caller,
                                           slot |-> "unresolved",
                                           timeout |-> TimeoutMs, age |-> 0,
                                           writeCb |-> Connected(s, c)]) @@ @]

\* the for loop of initialize() goes on to the next config; after the last one,
\* startHealthChecks()
loopNext(s) ==
    LET s1 == [s EXCEPT !.modular.at = @ + 1, !.modular.client = 0] IN
    IF s1.modular.at > Len(s1.modular.configs) THEN startHealthChecks(s1) ELSE s1

\* connectToMCP after ensureContainerRunning resolved: spawn, the client object
\* (then setupProcessHandlers and the initialize request, in initialize())
connectToMCP(s) ==
    LET c  == Len(s.clients) + 1
        s1 == [s EXCEPT !.clients = Append(@, NewClient(s.modular.configs[s.modular.at])),
                        !.modular.client = c]
    IN  sendMCPRequest(s1, c, "initialize", "modular.initialize")

\* a health round whose loop stands at position pos of the registry pings that
\* client and awaits; past the last client the round is over
probe(s, r) ==
    LET pos == s.modular.rounds[r].pos IN
    IF pos > Len(s.modular.order)
    THEN [s EXCEPT !.modular.rounds = RemoveAt(@, r)]
    ELSE LET c  == s.mcpClients[s.modular.order[pos]]
             s1 == sendRequest(s, c, "ping", "modular.startHealthChecks")
         IN  [s1 EXCEPT !.modular.rounds[r].call = <<c, s1.clients[c].requestId>>]

\* the code after an await of the modular orchestrator: the handshake steps of
\* initialize() (try / catch inside the loop) and the ping of a health round
modularContinue(s, c, id, outcome) ==
    LET method == s.clients[c].calls[id].method
        caller == s.clients[c].calls[id].caller
        name   == s.clients[c].name
    IN
    IF caller = "modular.initialize"
    THEN IF outcome # "ok" THEN loopNext(s)
         ELSE IF method = "initialize"
         THEN IF Connected(s, c)
              THEN sendMCPRequest(s, c, "initialized", "modular.initialize")
              ELSE loopNext(s)
         ELSE loopNext([s EXCEPT !.clients[c].isReady = TRUE,
                                 !.mcpClients[name] = c,
                                 !.modular.order = Append(@, name)])
    ELSE LET rs == {r \in DOMAIN s.modular.rounds : s.modular.rounds[r].call = <<c, id>>} IN
         IF rs = {} THEN s
         ELSE LET r == CHOOSE x \in rs : TRUE IN
              probe([s EXCEPT !.modular.rounds[r].pos = @ + 1], r)

\* Continue that runs the code of the periodic health check after the ping of
\* checkHealth as well
Continue_checkHealthAsMonitor(s, c, id, outcome) ==
    LET method == s.clients[c].calls[id].method
        caller == s.clients[c].calls[id].caller
    IN
    IF caller \in {"modular.initialize", "modular.startHealthChecks"}
    THEN modularContinue(s, c, id, outcome)
    ELSE
    CASE method = "initialize" ->
            IF outcome = "ok" THEN sendInitialized(s, c)
            ELSE connectFailed(s, CycleOf(s, c))
      [] method = "initialized" ->
            IF outcome = "ok" THEN connectSucceeded(s, CycleOf(s, c))
            ELSE connectFailed(s, CycleOf(s, c))
      [] caller \in {"startHealthChecks", "checkHealth"} ->
            IF outcome = "ok" THEN healthCheckPassed(s, c, id) ELSE healthCheckFailed(s, c)
      [] caller = "orchestrateTask" -> callSettled(s, c, id, outcome)
      [] OTHER -> s

\* the code after the await of the call (c, id), by its caller
Continue(s, c, id, outcome) ==
    LET method == s.clients[c].calls[id].method
        caller == s.clients[c].calls[id].caller
    IN
    IF caller \in {"modular.initialize", "modular.startHealthChecks"}
    THEN modularContinue(s, c, id, outcome)
    ELSE
    CASE method = "initialize" ->
            IF outcome = "ok" THEN sendInitialized(s, c)
            ELSE connectFailed(s, CycleOf(s, c))
      [] method = "initialized" ->
            IF outcome = "ok" THEN connectSucceeded(s, CycleOf(s, c))
            ELSE connectFailed(s, CycleOf(s, c))
      [] caller = "startHealthChecks" ->
            IF outcome = "ok" THEN healthCheckPassed(s, c, id) ELSE healthCheckFailed(s, c)
      [] caller = "orchestrateTask" -> callSettled(s, c, id, outcome)
      [] OTHER -> s

\* resolve / reject of the promise returned by sendMCPRequest: a promise
\* settles once, later calls of resolve or reject are ignored
Settle(s, c, id, outcome) ==
    IF s.clients[c].calls[id].slot # "unresolved" THEN s
    ELSE Continue([s EXCEPT !.clients[c].calls[id].slot = outcome], c, id, outcome)

\* handleMCPResponse that takes responses to arrive in the order of the
\* writes: a response resolves the oldest pending call
handleMCPResponse_inOrder(s, c, msg) ==
    LET pend == s.clients[c].pendingRequests IN
    IF msg.id # 0 /\ msg.id \in pend
    THEN LET id == CHOOSE i \in pend : \A j \in pend : i <= j IN
         Settle([s EXCEPT !.clients[c].pendingRequests = @ \ {id},
                          !.clients[c].calls[id].timeout = NoTimer],
                c, id, IF msg.isError THEN "remoteError" ELSE "ok")
    ELSE s

\* handleMCPResponse that gives a message with an unknown id to the oldest
\* pending call
handleMCPResponse_oldest(s, c, msg) ==
    LET pend == s.clients[c].pendingRequests
        id   == IF msg.id \in pend \/ pend = {} THEN msg.id
                ELSE CHOOSE i \in pend : \A j \in pend : i <= j
    IN  IF id \in pend
        THEN Settle([s EXCEPT !.clients[c].pendingRequests = @ \ {id},
                              !.clients[c].calls[id].timeout = NoTimer],
                    c, id, IF msg.isError THEN "remoteError" ELSE "ok")
        ELSE s

\* handleMCPResponse that resolves the call and leaves its entry in
\* pendingRequests
handleMCPResponse_keepsEntry(s, c, msg) ==
    IF msg.id # 0 /\ msg.id \in s.clients[c].pendingRequests
    THEN Settle([s EXCEPT !.clients[c].calls[msg.id].timeout = NoTimer],
                c, msg.id, IF msg.isError THEN "remoteError" ELSE "ok")
    ELSE s

\* handleMCPResponse(client, response); a message is [id, isError], id 0 for
\* a message without id
handleMCPResponse(s, c, msg) ==
    IF msg.id # 0 /\ msg.id \in s.clients[c].pendingRequests
    THEN Settle([s EXCEPT !.clients[c].pendingRequests = @ \ {msg.id},
                          !.clients[c].calls[msg.id].timeout = NoTimer],
                c, msg.id, IF msg.isError THEN "remoteError" ELSE "ok")
    ELSE s

\* onTimeout with the pendingRequests.delete left out
onTimeout_keepsEntry(s, c, id) ==
    Settle([s EXCEPT !.clients[c].calls[id].timeout = NoTimer], c, id, "timeout")

\* the timeout callback of sendMCPRequest
onTimeout(s, c, id) ==
    Settle([s EXCEPT !.clients[c].pendingRequests = @ \ {id},
                     !.clients[c].calls[id].timeout = NoTimer],
           c, id, "timeout")

\* the write callback of sendMCPRequest, called with an error
onWriteError(s, c, id) ==
    Settle([s EXCEPT !.clients[c].pendingRequests = @ \ {id},
                     !.clients[c].calls[id].timeout = NoTimer,
                     !.clients[c].calls[id].writeCb = FALSE],
           c, id, "writeError")

\* the write callback of sendRequest, called with an error: err && reject(err)
sendRequestWriteError(s, c, id) ==
    Settle([s EXCEPT !.clients[c].calls[id].writeCb = FALSE], c, id, "writeError")


\* no stdout bytes are followed
NoReader ==
    [bytes |-> <<>>, pos |-> <<0, 0>>,
     messageBuffer |-> << <<>>, <<>> >>, delivered |-> << <<>>, <<>> >>]

--------------------------------------------------------------------------
(* The state after the constructor: initialize() has started one           *)
(* connectToDockerMCP per configured endpoint, each waiting for            *)
(* ensureContainerRunning; no client exists, no health interval is armed.  *)

Init ==
    /\ clients = <<>>
    /\ cycles = <<[kind |-> "startup", name |-> Config.name, attempts |-> 0, from |-> 0,
                   phase |-> "check", rem |-> NoTimer, waited |-> 0, client |-> 0]>>
    /\ mcpClients = [n \in Endpoints |-> 0]
    /\ reconnectAttempts = [n \in Endpoints |-> 0]
    /\ healthCheckInterval = NoTimer
    /\ stopped = FALSE
    /\ failed = NotCounted
    /\ dropped = NotCounted
    /\ batch = NoBatch
    /\ reader = NoReader
    /\ lastHealthCheck = NotFollowed
    /\ modular = NoModular

\* the same state, with the history of failed reconnection cycles kept
InitHistory ==
    /\ clients = <<>>
    /\ cycles = <<[kind |-> "startup", name |-> Config.name, attempts |-> 0, from |-> 0,
                   phase |-> "check", rem |-> NoTimer, waited |-> 0, client |-> 0]>>
    /\ mcpClients = [n \in Endpoints |-> 0]
    /\ reconnectAttempts = [n \in Endpoints |-> 0]
    /\ healthCheckInterval = NoTimer
    /\ stopped = FALSE
    /\ failed = 0
    /\ dropped = NotCounted
    /\ batch = NoBatch
    /\ reader = NoReader
    /\ lastHealthCheck = NotFollowed
    /\ modular = NoModular

\* the same state, with the history of dropped messages kept
InitDropped ==
    /\ clients = <<>>
    /\ cycles = <<[kind |-> "startup", name |-> Config.name, attempts |-> 0, from |-> 0,
                   phase |-> "check", rem |-> NoTimer, waited |-> 0, client |-> 0]>>
    /\ mcpClients = [n \in Endpoints |-> 0]
    /\ reconnectAttempts = [n \in Endpoints |-> 0]
    /\ healthCheckInterval = NoTimer
    /\ stopped = FALSE
    /\ failed = NotCounted
    /\ dropped = 0
    /\ batch = NoBatch
    /\ reader = NoReader
    /\ lastHealthCheck = NotFollowed
    /\ modular = NoModular

Commit(s) ==
    /\ WithinBounds(s)
    /\ clients' = s.clients
    /\ cycles' = s.cycles
    /\ mcpClients' = s.mcpClients
    /\ reconnectAttempts' = s.reconnectAttempts
    /\ healthCheckInterval' = s.healthCheckInterval
    /\ stopped' = s.stopped
    /\ failed' = s.failed
    /\ dropped' = s.dropped
    /\ batch' = s.batch
    /\ reader' = reader
    /\ lastHealthCheck' = s.lastHealthCheck
    /\ modular' = s.modular

\* a call record nothing can reach any more: its promise is settled, its timer
\* is not armed, its write callback has run and pendingRequests does not hold it
Dead(cl, id) ==
    /\ cl.calls[id].slot # "unresolved"
    /\ cl.calls[id].timeout = NoTimer
    /\ ~cl.calls[id].writeCb
    /\ id \notin cl.pendingRequests

\* the state with the unreachable call records of the current state dropped
Swept ==
    [Cur EXCEPT !.clients =
        [c \in DOMAIN clients |->
            [clients[c] EXCEPT !.calls =
                [id \in {i \in DOMAIN clients[c].calls : ~Dead(clients[c], i)}
                    |-> clients[c].calls[id]]]]]

Messages == [id : 0..(MaxRequestId + 1), isError : BOOLEAN]

--------------------------------------------------------------------------
(* Actions: one per callback of the event loop *)

\* ContainerCheckDone of a connectToDockerMCP that spawns docker exec before it
\* looks at the outcome of the check
ContainerCheckDone_spawnFirst(k, running) ==
    /\ k \in DOMAIN cycles /\ cycles[k].phase = "check"
    /\ LET s  == Swept
           c  == Len(s.clients) + 1
           s1 == [s EXCEPT !.clients = Append(@, NewClient(s.cycles[k].name))]
       IN  IF running
           THEN Commit([s1 EXCEPT !.cycles[k].client = c,
                                  !.cycles[k].phase = "wait",
                                  !.cycles[k].rem = ReadyTimeoutMs])
           ELSE Commit(connectFailed(s1, k))

\* the close event of the docker inspect child of ensureContainerRunning; when
\* the container runs, connectToDockerMCP spawns docker exec, installs the
\* process handlers and starts waitForProcessReady
ContainerCheckDone(k, running) ==
    /\ k \in DOMAIN cycles /\ cycles[k].phase = "check"
    /\ LET s == Swept IN
       IF running
       THEN LET c == Len(s.clients) + 1 IN
            Commit([s EXCEPT !.clients = Append(@, NewClient(s.cycles[k].name)),
                             !.cycles[k].client = c,
                             !.cycles[k].phase = "wait",
                             !.cycles[k].rem = ReadyTimeoutMs])
       ELSE Commit(connectFailed(s, k))

\* StdoutData whose handler looks the client up in mcpClients by the name of
\* the endpoint instead of keeping the client object it was installed for
StdoutData_viaRegistry(c, msg) ==
    /\ c \in DOMAIN clients /\ clients[c].stdoutOpen
    /\ LET s0 == Swept
           d  == IF s0.mcpClients[s0.clients[c].name] # 0
                 THEN s0.mcpClients[s0.clients[c].name] ELSE c
           s1 == handleMCPResponse(s0, d, msg)
           s2 == IF s0.dropped # NotCounted /\ s1 = s0 /\ s0.clients[d].pendingRequests # {}
                 THEN [s1 EXCEPT !.dropped = Min(@ + 1, MaxDropped)]
                 ELSE s1
           k  == CycleOf(s2, c)
       IN  IF k # 0 /\ s2.cycles[k].phase = "wait"
           THEN Commit(initializeMCPClient(s2, c))
           ELSE Commit(s2)

\* a data event of the process's stdout carrying one message line: the handler
\* of setupProcessHandlers (append, processMessages, handleMCPResponse), then
\* the onData listener of waitForProcessReady when it is installed
StdoutData(c, msg) ==
    /\ c \in DOMAIN clients /\ clients[c].stdoutOpen
    /\ LET s0 == Swept
           s1 == handleMCPResponse(s0, c, msg)
           s2 == IF s0.dropped # NotCounted /\ s1 = s0 /\ s0.clients[c].pendingRequests # {}
                 THEN [s1 EXCEPT !.dropped = Min(@ + 1, MaxDropped)]
                 ELSE s1
           k  == CycleOf(s2, c)
       IN  IF k # 0 /\ s2.cycles[k].phase = "wait"
           THEN Commit(initializeMCPClient(s2, c))
           ELSE Commit(s2)

\* the timer of waitForProcessReady fires
WaitReadyTimeout(k) ==
    /\ k \in DOMAIN cycles /\ cycles[k].phase = "wait" /\ cycles[k].rem = 0
    /\ Commit(connectFailed([Swept EXCEPT !.cycles[k].rem = NoTimer], k))

\* the timeout timer of a request fires
RequestTimeout(c, id) ==
    /\ c \in DOMAIN clients /\ id \in DOMAIN clients[c].calls
    /\ clients[c].calls[id].timeout = 0
    /\ Commit(onTimeout(Swept, c, id))

\* the write callback of a request runs with an error
WriteError(c, id) ==
    /\ c \in DOMAIN clients /\ id \in DOMAIN clients[c].calls
    /\ clients[c].calls[id].writeCb
    /\ Commit(onWriteError(Swept, c, id))

\* the write callback of a request runs without error
WriteFlushed(c, id) ==
    /\ c \in DOMAIN clients /\ id \in DOMAIN clients[c].calls
    /\ clients[c].calls[id].writeCb
    /\ Commit([Swept EXCEPT !.clients[c].calls[id].writeCb = FALSE])

\* the exit event of a process
ProcessExit(c) ==
    /\ c \in DOMAIN clients /\ ~clients[c].exited
    /\ Commit(scheduleReconnect(
           [Swept EXCEPT !.clients[c].exited = TRUE,
                         !.clients[c].isReady = FALSE,
                         !.clients[c].process = FALSE], c))

\* the error event of a process that has not exited
ProcessError(c) ==
    /\ c \in DOMAIN clients /\ ~clients[c].exited
    /\ Commit(scheduleReconnect([Swept EXCEPT !.clients[c].isReady = FALSE], c))

\* the stdout of an exited process reaches its end: no data event follows
StdoutClose(c) ==
    /\ c \in DOMAIN clients /\ clients[c].exited /\ clients[c].stdoutOpen
    /\ Commit([Swept EXCEPT !.clients[c].stdoutOpen = FALSE])

\* the timer of scheduleReconnect fires: connectToDockerMCP starts with
\* ensureContainerRunning
ReconnectTimer(k) ==
    /\ k \in DOMAIN cycles /\ cycles[k].phase = "timer" /\ cycles[k].rem = 0
    /\ Commit([Swept EXCEPT !.cycles[k].phase = "check", !.cycles[k].rem = NoTimer])

\* healthCheckOne without the isReady test
healthCheckOne_noReadyTest(s, name) ==
    LET c == s.mcpClients[name] IN
    IF c = 0 THEN s
    ELSE IF ~Connected(s, c) THEN healthCheckFailed(s, c)
    ELSE sendMCPRequest(s, c, "ping", "startHealthChecks")

\* one round of the health interval for the entry of name in mcpClients
healthCheckOne(s, name) ==
    LET c == s.mcpClients[name] IN
    IF c = 0 THEN s
    ELSE IF ~s.clients[c].isReady \/ ~Connected(s, c) THEN healthCheckFailed(s, c)
    ELSE sendMCPRequest(s, c, "ping", "startHealthChecks")

RECURSIVE healthCheckAll(_, _)
healthCheckAll(s, names) ==
    IF names = {} THEN s
    ELSE LET n == CHOOSE x \in names : TRUE IN
         healthCheckAll(healthCheckOne(s, n), names \ {n})

\* the callback of the health interval
HealthCheck ==
    /\ healthCheckInterval = 0
    /\ Commit(healthCheckAll([Swept EXCEPT !.healthCheckInterval = HealthIntervalMs],
                             DOMAIN mcpClients))

\* executeTask(mcpName, toolName, params) up to its await
executeTask(s, name) ==
    LET c == s.mcpClients[name] IN
    IF c = 0 THEN s
    ELSE IF ~s.clients[c].isReady THEN s
    ELSE IF ~Connected(s, c) THEN s
    ELSE sendMCPRequest(s, c, "tools/call", "executeTask")

ExecuteTask(name) ==
    /\ name \in Endpoints
    /\ Commit(executeTask(Swept, name))

\* checkHealth({mcp_name}) up to its await: the entry of the registry, its
\* isReady, then the ping; every failure only becomes an "unhealthy" result
checkHealth(s, name) ==
    LET c == s.mcpClients[name] IN
    IF c = 0 THEN s
    ELSE IF ~s.clients[c].isReady THEN s
    ELSE IF ~Connected(s, c) THEN s
    ELSE sendMCPRequest(s, c, "ping", "checkHealth")

\* a check_health request of the MCP server reaches checkHealth
CheckHealth(name) ==
    /\ name \in Endpoints
    /\ Commit(checkHealth(Swept, name))

\* stop(): clearInterval, kill the process of every client of mcpClients
Stop ==
    /\ ~stopped
    /\ Commit([Swept EXCEPT
           !.stopped = TRUE,
           !.healthCheckInterval = NoTimer,
           !.clients = [c \in DOMAIN @ |->
               IF (\E n \in DOMAIN mcpClients : mcpClients[n] = c) /\ @[c].process
               THEN [@[c] EXCEPT !.killed = TRUE] ELSE @[c]]])

\* a timer after TickMs have passed
Down(t) == IF t > 0 THEN t - TickMs ELSE t

TickCall(call) ==
    [call EXCEPT !.timeout = Down(@),
                 !.age = IF call.slot = "unresolved" THEN Min(@ + TickMs, TimeoutMs) ELSE @]

TickCycle(cyc) ==
    [cyc EXCEPT !.rem = Down(@),
                !.waited = IF cyc.phase = "timer" THEN @ + TickMs ELSE @]

TickClient(cl) == [cl EXCEPT !.calls = [id \in DOMAIN @ |-> TickCall(@[id])]]

\* TickMs pass; no timer is due and no exited process has unread output
Tick ==
    /\ healthCheckInterval # 0
    /\ \A k \in DOMAIN cycles : cycles[k].rem # 0
    /\ \A c \in DOMAIN clients :
          /\ clients[c].exited => ~clients[c].stdoutOpen
          /\ \A id \in DOMAIN clients[c].calls : clients[c].calls[id].timeout # 0
    /\ LET s == Swept IN
       Commit([s EXCEPT
            !.healthCheckInterval = Down(@),
            !.cycles = [k \in DOMAIN @ |-> TickCycle(@[k])],
            !.clients = [c \in DOMAIN @ |-> TickClient(@[c])]])

\* no write callback is waiting to run
WritesDone ==
    \A c \in DOMAIN clients : \A id \in DOMAIN clients[c].calls : ~clients[c].calls[id].writeCb

\* the steps of the program and of the backends, except the start of a
\* process, a tool call (executeTask) and the passing of time
Step ==
    \/ \E c \in 1..MaxClients, msg \in Messages : StdoutData(c, msg)
    \/ \E k \in 1..MaxCycles : WaitReadyTimeout(k)
    \/ \E c \in 1..MaxClients, id \in 1..MaxRequestId : RequestTimeout(c, id)
    \/ \E c \in 1..MaxClients, id \in 1..MaxRequestId : WriteError(c, id)
    \/ \E c \in 1..MaxClients, id \in 1..MaxRequestId : WriteFlushed(c, id)
    \/ \E c \in 1..MaxClients : ProcessExit(c)
    \/ \E c \in 1..MaxClients : ProcessError(c)
    \/ \E c \in 1..MaxClients : StdoutClose(c)
    \/ \E k \in 1..MaxCycles : ReconnectTimer(k)
    \/ HealthCheck

\* Spec: the lifecycle of the endpoint over MaxClients processes, with the
\* calls of the handshake and of the health interval.  A write callback runs
\* (with or without error) before time passes.
Next ==
    \/ \E k \in 1..MaxCycles, running \in BOOLEAN : ContainerCheckDone(k, running)
    \/ Step
    \/ WritesDone /\ Tick

Spec == Init /\ [][Next]_vars

\* SpecHistory: Spec with the history of failed connect attempts kept
SpecHistory == InitHistory /\ [][Next]_vars

\* SpecDropped: Spec with the history of dropped messages
SpecDropped == InitDropped /\ [][Next]_vars

\* SpecStop: Spec with stop() called at any moment
NextStop ==
    \/ Next
    \/ Stop

SpecStop == Init /\ [][NextStop]_vars

\* SpecCalls: the calls on a connection once it is Ready.  It starts in the
\* state Spec reaches when the startup handshake of the first process has
\* succeeded; no further process starts (every later container check reports
\* the container not running), and a write callback may run arbitrarily late,
\* after any number of timers.
InitReady ==
    /\ clients = <<[NewClient(Config.name) EXCEPT
                       !.isReady = TRUE, !.requestId = 2,
                       !.stdin = <<Request(1), Request(2)>>]>>
    /\ cycles = <<>>
    /\ mcpClients = [n \in Endpoints |-> 1]
    /\ reconnectAttempts = [n \in Endpoints |-> 0]
    /\ healthCheckInterval = HealthIntervalMs
    /\ stopped = FALSE
    /\ failed = NotCounted
    /\ dropped = 0
    /\ batch = NoBatch
    /\ reader = NoReader
    /\ lastHealthCheck = NotFollowed
    /\ modular = NoModular

NextCalls ==
    \/ \E k \in 1..MaxCycles : ContainerCheckDone(k, FALSE)
    \/ \E c \in 1..MaxClients, msg \in Messages : StdoutData(c, msg)
    \/ \E c \in 1..MaxClients, id \in 1..MaxRequestId : RequestTimeout(c, id)
    \/ \E c \in 1..MaxClients, id \in 1..MaxRequestId : WriteError(c, id)
    \/ \E c \in 1..MaxClients, id \in 1..MaxRequestId : WriteFlushed(c, id)
    \/ \E c \in 1..MaxClients : ProcessExit(c)
    \/ \E c \in 1..MaxClients : ProcessError(c)
    \/ \E c \in 1..MaxClients : StdoutClose(c)
    \/ \E k \in 1..MaxCycles : ReconnectTimer(k)
    \/ HealthCheck
    \/ \E name \in Endpoints : ExecuteTask(name)
    \/ Tick

SpecCalls == InitReady /\ [][NextCalls]_vars

\* SpecHealth: the pings on a connection once it is Ready, those of the health
\* interval and those of checkHealth, with lastHealthCheck followed.  As in
\* SpecCalls no further process starts.
InitHealth ==
    /\ clients = <<[NewClient(Config.name) EXCEPT
                       !.isReady = TRUE, !.requestId = 2,
                       !.stdin = <<Request(1), Request(2)>>]>>
    /\ cycles = <<>>
    /\ mcpClients = [n \in Endpoints |-> 1]
    /\ reconnectAttempts = [n \in Endpoints |-> 0]
    /\ healthCheckInterval = HealthIntervalMs
    /\ stopped = FALSE
    /\ failed = NotCounted
    /\ dropped = NotCounted
    /\ batch = NoBatch
    /\ reader = NoReader
    /\ lastHealthCheck = [c \in 1..MaxClients |-> 0]
    /\ modular = NoModular

NextHealth ==
    \/ \E k \in 1..MaxCycles : ContainerCheckDone(k, FALSE)
    \/ \E c \in 1..MaxClients, msg \in Messages : StdoutData(c, msg)
    \/ \E c \in 1..MaxClients, id \in 1..MaxRequestId : RequestTimeout(c, id)
    \/ \E c \in 1..MaxClients, id \in 1..MaxRequestId : WriteError(c, id)
    \/ \E c \in 1..MaxClients, id \in 1..MaxRequestId : WriteFlushed(c, id)
    \/ \E c \in 1..MaxClients : ProcessExit(c)
    \/ \E c \in 1..MaxClients : ProcessError(c)
    \/ \E c \in 1..MaxClients : StdoutClose(c)
    \/ \E k \in 1..MaxCycles : ReconnectTimer(k)
    \/ HealthCheck
    \/ \E name \in Endpoints : CheckHealth(name)
    \/ Tick

SpecHealth == InitHealth /\ [][NextHealth]_vars

\* SpecSettle: the calls of a connection until they settle, when whatever is
\* runnable runs at some time: a timer that is due fires, a write callback and
\* the end of a container check or of an exited process's output come, and
\* time passes.  Nothing is assumed about the backend: whether it answers, and
\* whether it exits, is not fair.  It starts either with the connection Ready
\* after startup (InitHealth), or in the state Spec reaches when the Ready
\* process exited 5 s after the ping of a health round was written and the
\* reconnect has just spawned the next process, whose handshake is to come
\* (InitReplaced).  No further process starts.
InitReplaced ==
    /\ clients =
          <<[NewClient(Config.name) EXCEPT
                !.process = FALSE, !.exited = TRUE, !.stdoutOpen = FALSE,
                !.requestId = 3, !.pendingRequests = {3},
                !.stdin = <<Request(1), Request(2), Request(3)>>,
                !.calls = (3 :> [method |-> "ping", caller |-> "startHealthChecks",
                                 slot |-> "unresolved",
                                 timeout |-> TimeoutMs - BaseDelayMs, age |-> BaseDelayMs,
                                 writeCb |-> FALSE])],
            NewClient(Config.name)>>
    /\ cycles = <<[kind |-> "reconnect", name |-> Config.name, attempts |-> 0, from |-> 1,
                   phase |-> "wait", rem |-> ReadyTimeoutMs, waited |-> BaseDelayMs,
                   client |-> 2]>>
    /\ mcpClients = [n \in Endpoints |-> 1]
    /\ reconnectAttempts = [n \in Endpoints |-> 0]
    /\ healthCheckInterval = HealthIntervalMs - BaseDelayMs
    /\ stopped = FALSE
    /\ failed = NotCounted
    /\ dropped = NotCounted
    /\ batch = NoBatch
    /\ reader = NoReader
    /\ lastHealthCheck = [c \in 1..MaxClients |-> 0]
    /\ modular = NoModular

\* the timer callbacks
TimerFires ==
    \/ \E c \in 1..MaxClients, id \in 1..MaxRequestId : RequestTimeout(c, id)
    \/ \E k \in 1..MaxCycles : ReconnectTimer(k)
    \/ \E k \in 1..MaxCycles : WaitReadyTimeout(k)
    \/ HealthCheck

\* the I/O callbacks that the operating system owes
CallbackRuns ==
    \/ \E c \in 1..MaxClients, id \in 1..MaxRequestId : WriteError(c, id)
    \/ \E c \in 1..MaxClients, id \in 1..MaxRequestId : WriteFlushed(c, id)
    \/ \E c \in 1..MaxClients : StdoutClose(c)
    \/ \E k \in 1..MaxCycles : ContainerCheckDone(k, FALSE)

TimePasses == WritesDone /\ Tick

NextSettle ==
    \/ TimerFires
    \/ CallbackRuns
    \/ TimePasses
    \/ \E c \in 1..MaxClients, msg \in Messages : StdoutData(c, msg)
    \/ \E c \in 1..MaxClients : ProcessExit(c)
    \/ \E name \in Endpoints : ExecuteTask(name)

SpecSettle ==
    /\ InitHealth \/ InitReplaced
    /\ [][NextSettle]_vars
    /\ WF_vars(TimerFires) /\ WF_vars(CallbackRuns) /\ WF_vars(TimePasses)

\* steps of an execution plan: the endpoint of each; "ghost" is a name with no
\* entry in mcpClients
MaxSteps == 3
StepNames == Endpoints \cup {"ghost"}
Plans ==
    {plan \in UNION {[1..n -> StepNames] : n \in 1..MaxSteps} :
        Cardinality({i \in DOMAIN plan : plan[i] \in Endpoints}) <= MaxRequestId - 2}

\* a tools/call request of the MCP server reaches orchestrateTask, which has
\* built its execution plan
OrchestrateTask(plan, parallel) ==
    /\ batch.phase = "none"
    /\ Commit(orchestrateTask(Swept, plan, parallel))

\* orchestrateTask returns its response (the results array) to the MCP server;
\* this is the continuation of the step that completed the batch
ReturnResults ==
    /\ batch.phase = "done"
    /\ Commit([Swept EXCEPT !.batch = NoBatch])

\* SpecFanOut: orchestrateTask calls on a connection that is Ready after its
\* startup handshake, while the backend answers, fails, times out or exits.
\* As in SpecCalls no further process starts; as in Spec a write callback runs
\* before time passes.
NextFanOut ==
    \/ \E plan \in Plans, parallel \in BOOLEAN : OrchestrateTask(plan, parallel)
    \/ ReturnResults
    \/ \E k \in 1..MaxCycles : batch.phase # "done" /\ ContainerCheckDone(k, FALSE)
    \/ \E c \in 1..MaxClients, msg \in Messages : batch.phase # "done" /\ StdoutData(c, msg)
    \/ \E c \in 1..MaxClients, id \in 1..MaxRequestId :
          batch.phase # "done" /\ RequestTimeout(c, id)
    \/ \E c \in 1..MaxClients, id \in 1..MaxRequestId :
          batch.phase # "done" /\ WriteError(c, id)
    \/ \E c \in 1..MaxClients, id \in 1..MaxRequestId :
          batch.phase # "done" /\ WriteFlushed(c, id)
    \/ \E c \in 1..MaxClients : batch.phase # "done" /\ ProcessExit(c)
    \/ \E c \in 1..MaxClients : batch.phase # "done" /\ ProcessError(c)
    \/ \E c \in 1..MaxClients : batch.phase # "done" /\ StdoutClose(c)
    \/ \E k \in 1..MaxCycles : batch.phase # "done" /\ ReconnectTimer(k)
    \/ batch.phase # "done" /\ HealthCheck
    \/ batch.phase # "done" /\ WritesDone /\ Tick

SpecFanOut == InitReady /\ [][NextFanOut]_vars

--------------------------------------------------------------------------
(* The frame reader: the stdout data handler of setupProcessHandlers and   *)
(* processMessages.  A process writes the UTF-8 bytes of its output text;  *)
(* each data event carries some of them as a Buffer.  Text is a sequence   *)
(* of characters: "x" an ASCII character, "sp" a blank, "nl" the newline,  *)
(* "e" a character of two UTF-8 bytes ("L" lead byte, "T" continuation     *)
(* byte), "?" the replacement character U+FFFD.                            *)

\* characters of an output text
MaxText == 3
Chars == {"x", "sp", "nl", "e"}
Texts == UNION {[1..n -> Chars] : n \in 0..MaxText}

\* the UTF-8 bytes of a text, as the process writes them
RECURSIVE Encode(_)
Encode(text) ==
    IF text = <<>> THEN <<>>
    ELSE (IF Head(text) = "e" THEN <<"L", "T">> ELSE <<Head(text)>>) \o Encode(Tail(text))

\* data.toString(): UTF-8 decoding of one Buffer on its own; a byte sequence
\* that is not complete within the Buffer decodes to U+FFFD
RECURSIVE BufferToString(_)
BufferToString(data) ==
    IF data = <<>> THEN <<>>
    ELSE IF Head(data) = "L"
         THEN IF Len(data) >= 2 /\ data[2] = "T"
              THEN <<"e">> \o BufferToString(SubSeq(data, 3, Len(data)))
              ELSE <<"?">> \o BufferToString(Tail(data))
    ELSE IF Head(data) = "T" THEN <<"?">> \o BufferToString(Tail(data))
    ELSE <<Head(data)>> \o BufferToString(Tail(data))

\* line.trim()
RECURSIVE trim(_)
trim(line) ==
    IF line = <<>> THEN <<>>
    ELSE IF Head(line) = "sp" THEN trim(Tail(line))
    ELSE IF line[Len(line)] = "sp" THEN trim(SubSeq(line, 1, Len(line) - 1))
    ELSE line

\* JSON.parse(trimmedLine) returns (TRUE) or throws a SyntaxError (FALSE): "b"
\* is a character that breaks the JSON syntax of its line
JSONparse(line) == \A i \in DOMAIN line : line[i] # "b"

\* what follows the last newline of text: lines.pop() of text.split("\n")
AfterLastNewline(text) ==
    IF \A i \in DOMAIN text : text[i] # "nl" THEN text
    ELSE LET i == CHOOSE j \in DOMAIN text :
                      text[j] = "nl" /\ \A k \in (j + 1)..Len(text) : text[k] # "nl"
         IN  SubSeq(text, i + 1, Len(text))

\* processMessages whose try / catch is around the loop: the first line that
\* fails to parse ends the handling of the chunk
RECURSIVE processMessages_stopsAtError(_, _)
processMessages_stopsAtError(messageBuffer, delivered) ==
    IF \A i \in DOMAIN messageBuffer : messageBuffer[i] # "nl"
    THEN [messageBuffer |-> messageBuffer, delivered |-> delivered]
    ELSE LET i    == CHOOSE j \in DOMAIN messageBuffer :
                        /\ messageBuffer[j] = "nl"
                        /\ \A k \in 1..(j - 1) : messageBuffer[k] # "nl"
             line == trim(SubSeq(messageBuffer, 1, i - 1))
         IN  IF line # <<>> /\ ~JSONparse(line)
             THEN [messageBuffer |-> AfterLastNewline(messageBuffer), delivered |-> delivered]
             ELSE processMessages_stopsAtError(
                      SubSeq(messageBuffer, i + 1, Len(messageBuffer)),
                      IF line = <<>> THEN delivered ELSE Append(delivered, line))

\* processMessages(client) on messageBuffer: every line closed by a newline is
\* trimmed and, unless blank, parsed and handed to handleMCPResponse; a line
\* that fails to parse is logged and skipped; what follows the last newline
\* stays in messageBuffer.  A parsed message is identified by the text of its
\* line.
RECURSIVE processMessages(_, _)
processMessages(messageBuffer, delivered) ==
    IF \A i \in DOMAIN messageBuffer : messageBuffer[i] # "nl"
    THEN [messageBuffer |-> messageBuffer, delivered |-> delivered]
    ELSE LET i    == CHOOSE j \in DOMAIN messageBuffer :
                        /\ messageBuffer[j] = "nl"
                        /\ \A k \in 1..(j - 1) : messageBuffer[k] # "nl"
             line == trim(SubSeq(messageBuffer, 1, i - 1))
         IN  processMessages(SubSeq(messageBuffer, i + 1, Len(messageBuffer)),
                             IF line = <<>> \/ ~JSONparse(line)
                             THEN delivered ELSE Append(delivered, line))

\* two Ready clients whose processes are about to write the same text
InitFrames ==
    /\ clients = <<[NewClient(Config.name) EXCEPT
                       !.isReady = TRUE, !.requestId = 2,
                       !.stdin = <<Request(1), Request(2)>>]>>
    /\ cycles = <<>>
    /\ mcpClients = [n \in Endpoints |-> 1]
    /\ reconnectAttempts = [n \in Endpoints |-> 0]
    /\ healthCheckInterval = HealthIntervalMs
    /\ stopped = FALSE
    /\ failed = NotCounted
    /\ dropped = NotCounted
    /\ batch = NoBatch
    /\ \E text \in Texts : reader = [NoReader EXCEPT !.bytes = Encode(text)]
    /\ lastHealthCheck = NotFollowed
    /\ modular = NoModular

\* a data event of reader r carrying the next n bytes:
\* client.messageBuffer += data.toString(); this.processMessages(client)
ChunkData(r, n) ==
    /\ reader.pos[r] + n <= Len(reader.bytes)
    /\ LET data == SubSeq(reader.bytes, reader.pos[r] + 1, reader.pos[r] + n)
           res  == processMessages(reader.messageBuffer[r] \o BufferToString(data),
                                   reader.delivered[r])
       IN  reader' = [reader EXCEPT !.pos[r] = @ + n,
                                    !.messageBuffer[r] = res.messageBuffer,
                                    !.delivered[r] = res.delivered]
    /\ UNCHANGED <<clients, cycles, mcpClients, reconnectAttempts,
                   healthCheckInterval, stopped, failed, dropped, batch,
                   lastHealthCheck, modular>>

NextFrames == \E r \in 1..2, n \in 1..(2 * MaxText) : ChunkData(r, n)

\* SpecFrames: the same bytes read in chunks cut at any places
SpecFrames == InitFrames /\ [][NextFrames]_vars

\* SpecParse: one client whose process writes lines of which some are not
\* JSON, read in chunks cut at any places
MaxParseText == 6
ParseChars == {"x", "e", "b", "nl"}
ParseTexts == UNION {[1..n -> ParseChars] : n \in 0..MaxParseText}

InitParse ==
    /\ clients = <<[NewClient(Config.name) EXCEPT
                       !.isReady = TRUE, !.requestId = 2,
                       !.stdin = <<Request(1), Request(2)>>]>>
    /\ cycles = <<>>
    /\ mcpClients = [n \in Endpoints |-> 1]
    /\ reconnectAttempts = [n \in Endpoints |-> 0]
    /\ healthCheckInterval = HealthIntervalMs
    /\ stopped = FALSE
    /\ failed = NotCounted
    /\ dropped = NotCounted
    /\ batch = NoBatch
    /\ \E text \in ParseTexts : reader = [NoReader EXCEPT !.bytes = Encode(text)]
    /\ lastHealthCheck = NotFollowed
    /\ modular = NoModular

NextParse == \E n \in 1..(2 * MaxParseText) : ChunkData(1, n)

SpecParse == InitParse /\ [][NextParse]_vars

--------------------------------------------------------------------------
(* The modular orchestrator: its actions and its specification *)

\* the mcps of its mcp-config.json, in file order
ModularConfigs == <<"alpha", "beta">>

\* the state when initialize() has entered its loop and awaits the container
\* check of the first config
InitModular ==
    /\ clients = <<>>
    /\ cycles = <<>>
    /\ mcpClients = [n \in {ModularConfigs[i] : i \in DOMAIN ModularConfigs} |-> 0]
    /\ reconnectAttempts = [n \in Endpoints |-> 0]
    /\ healthCheckInterval = NoTimer
    /\ stopped = FALSE
    /\ failed = NotCounted
    /\ dropped = NotCounted
    /\ batch = NoBatch
    /\ reader = NoReader
    /\ lastHealthCheck = [c \in 1..MaxClients |-> 0]
    /\ modular = [NoModular EXCEPT !.configs = ModularConfigs, !.at = 1]

\* the close event of the docker inspect child of the config the loop stands
\* at: connectToMCP goes on (spawn, handshake) or throws into the loop's catch
ModularContainerCheckDone(running) ==
    /\ modular.at \in DOMAIN modular.configs /\ modular.client = 0
    /\ IF running THEN Commit(connectToMCP(Swept)) ELSE Commit(loopNext(Swept))

\* the callback of the health interval: a new round starts at the first client
\* of the registry
ModularHealthCheck ==
    /\ healthCheckInterval = 0
    /\ LET s == [Swept EXCEPT !.healthCheckInterval = HealthIntervalMs,
                              !.modular.rounds = Append(@, [pos |-> 1, call |-> <<0, 0>>])]
       IN  Commit(probe(s, Len(s.modular.rounds)))

\* the write callback of a request runs with an error; a ping was written by
\* sendRequest, a handshake request by sendMCPRequest
ModularWriteError(c, id) ==
    /\ c \in DOMAIN clients /\ id \in DOMAIN clients[c].calls
    /\ clients[c].calls[id].writeCb
    /\ IF clients[c].calls[id].caller = "modular.startHealthChecks"
       THEN Commit(sendRequestWriteError(Swept, c, id))
       ELSE Commit(onWriteError(Swept, c, id))

\* a process exits; no exit handler is installed, the client keeps its process
\* handle and its isReady
ModularProcessExit(c) ==
    /\ c \in DOMAIN clients /\ ~clients[c].exited
    /\ Commit([Swept EXCEPT !.clients[c].exited = TRUE])

\* SpecModular: the modular orchestrator from its initialize() on, over two
\* endpoints.  The stdout data handler, the timeout callback and handleResponse
\* are the ones of the index-level orchestrator (the same code).
NextModular ==
    \/ \E running \in BOOLEAN : ModularContainerCheckDone(running)
    \/ \E c \in 1..MaxClients, msg \in Messages : StdoutData(c, msg)
    \/ \E c \in 1..MaxClients, id \in 1..MaxRequestId : RequestTimeout(c, id)
    \/ \E c \in 1..MaxClients, id \in 1..MaxRequestId : ModularWriteError(c, id)
    \/ \E c \in 1..MaxClients, id \in 1..MaxRequestId : WriteFlushed(c, id)
    \/ \E c \in 1..MaxClients : ModularProcessExit(c)
    \/ \E c \in 1..MaxClients : StdoutClose(c)
    \/ ModularHealthCheck
    \/ WritesDone /\ Tick

SpecModular == InitModular /\ [][NextModular]_vars

--------------------------------------------------------------------------
(* Two endpoints *)

\* the names of an mcp-config.json with two mcps
PairEndpoints == {"alpha", "beta"}

\* SpecPair: the index-level orchestrator with two endpoints, from the state
\* after the constructor: initializeMCPs has started the connect of both.
\* As in Spec a write callback runs before time passes; the error event of a
\* process is left out.
InitPair ==
    /\ clients = <<>>
    /\ cycles = <<[kind |-> "startup", name |-> "alpha", attempts |-> 0, from |-> 0,
                   phase |-> "check", rem |-> NoTimer, waited |-> 0, client |-> 0],
                  [kind |-> "startup", name |-> "beta", attempts |-> 0, from |-> 0,
                   phase |-> "check", rem |-> NoTimer, waited |-> 0, client |-> 0]>>
    /\ mcpClients = [n \in PairEndpoints |-> 0]
    /\ reconnectAttempts = [n \in PairEndpoints |-> 0]
    /\ healthCheckInterval = NoTimer
    /\ stopped = FALSE
    /\ failed = NotCounted
    /\ dropped = NotCounted
    /\ batch = NoBatch
    /\ reader = NoReader
    /\ lastHealthCheck = NotFollowed
    /\ modular = NoModular

NextPair ==
    \/ \E k \in 1..MaxCycles, running \in BOOLEAN : ContainerCheckDone(k, running)
    \/ \E c \in 1..MaxClients, msg \in Messages : StdoutData(c, msg)
    \/ \E k \in 1..MaxCycles : WaitReadyTimeout(k)
    \/ \E c \in 1..MaxClients, id \in 1..MaxRequestId : RequestTimeout(c, id)
    \/ \E c \in 1..MaxClients, id \in 1..MaxRequestId : WriteError(c, id)
    \/ \E c \in 1..MaxClients, id \in 1..MaxRequestId : WriteFlushed(c, id)
    \/ \E c \in 1..MaxClients : ProcessExit(c)
    \/ \E c \in 1..MaxClients : StdoutClose(c)
    \/ \E k \in 1..MaxCycles : ReconnectTimer(k)
    \/ HealthCheck
    \/ WritesDone /\ Tick

SpecPair == InitPair /\ [][NextPair]_vars

\* SpecStartup: startup with two endpoints of which one, Good, has a running
\* container and a backend that completes the handshake: its process prints
\* a first line, answers every request with a result before the request's
\* timer is due, takes every write and does not exit.  The other endpoint
\* behaves in any way.  Only the steps of Good's container check and backend
\* are fair: nothing is assumed about the other endpoint, not even that its
\* container check ever ends.
Good == "alpha"

GoodClient(c) == c \in DOMAIN clients /\ clients[c].name = Good

\* the output the backend of Good may print on client c: its first line while
\* waitForProcessReady listens, the result of a pending request afterwards
Owed(c, msg) ==
    LET k == CycleOf(Cur, c) IN
    IF k # 0 /\ cycles[k].phase = "wait"
    THEN msg = [id |-> 0, isError |-> FALSE]
    ELSE msg.id \in clients[c].pendingRequests /\ ~msg.isError

\* no timer of Good becomes due when TickMs pass
GoodInTime ==
    /\ \A k \in DOMAIN cycles :
          (cycles[k].name = Good /\ cycles[k].rem # NoTimer) => cycles[k].rem > TickMs
    /\ \A c \in DOMAIN clients : \A id \in DOMAIN clients[c].calls :
          (clients[c].name = Good /\ clients[c].calls[id].timeout # NoTimer) =>
              clients[c].calls[id].timeout > TickMs

\* the other endpoint leaves one of the MaxClients processes to Good
RoomLeft == Len(clients) + 1 < MaxClients \/ \E c \in DOMAIN clients : clients[c].name = Good

GoodStep ==
    \/ \E k \in 1..MaxCycles :
          k \in DOMAIN cycles /\ cycles[k].name = Good /\ ContainerCheckDone(k, TRUE)
    \/ \E c \in 1..MaxClients, msg \in Messages :
          GoodClient(c) /\ Owed(c, msg) /\ StdoutData(c, msg)

NextStartup ==
    \/ GoodStep
    \/ \E k \in 1..MaxCycles, running \in BOOLEAN :
          /\ k \in DOMAIN cycles /\ cycles[k].name # Good
          /\ running => RoomLeft
          /\ ContainerCheckDone(k, running)
    \/ \E c \in 1..MaxClients, msg \in Messages : ~GoodClient(c) /\ StdoutData(c, msg)
    \/ \E k \in 1..MaxCycles :
          k \in DOMAIN cycles /\ cycles[k].name # Good /\ WaitReadyTimeout(k)
    \/ \E c \in 1..MaxClients, id \in 1..MaxRequestId : ~GoodClient(c) /\ RequestTimeout(c, id)
    \/ \E c \in 1..MaxClients, id \in 1..MaxRequestId : ~GoodClient(c) /\ WriteError(c, id)
    \/ \E c \in 1..MaxClients, id \in 1..MaxRequestId : WriteFlushed(c, id)
    \/ \E c \in 1..MaxClients : ~GoodClient(c) /\ ProcessExit(c)
    \/ \E c \in 1..MaxClients : StdoutClose(c)
    \/ \E k \in 1..MaxCycles : ReconnectTimer(k)
    \/ HealthCheck
    \/ WritesDone /\ GoodInTime /\ Tick

SpecStartup == InitPair /\ [][NextStartup]_vars /\ WF_vars(GoodStep)

\* SpecSilent: SpecStartup with a backend of Good that prints nothing of its
\* own: it stays silent until a request reaches it and then answers every
\* request with a result before the request's timer is due.  The timer of
\* waitForProcessReady runs for Good as for the other endpoint.  Whatever
\* callback is runnable runs at some time (the event loop is fair to all).
AnswersOnly(c, msg) == msg.id \in clients[c].pendingRequests /\ ~msg.isError

\* no request timer of Good becomes due when TickMs pass
AnswersInTime ==
    \A c \in DOMAIN clients : \A id \in DOMAIN clients[c].calls :
        (clients[c].name = Good /\ clients[c].calls[id].timeout # NoTimer) =>
            clients[c].calls[id].timeout > TickMs

NextSilent ==
    \/ \E k \in 1..MaxCycles, running \in BOOLEAN :
          /\ k \in DOMAIN cycles
          /\ IF cycles[k].name = Good THEN running ELSE running => RoomLeft
          /\ ContainerCheckDone(k, running)
    \/ \E c \in 1..MaxClients, msg \in Messages :
          /\ GoodClient(c) => AnswersOnly(c, msg)
          /\ StdoutData(c, msg)
    \/ \E k \in 1..MaxCycles : WaitReadyTimeout(k)
    \/ \E c \in 1..MaxClients, id \in 1..MaxRequestId : ~GoodClient(c) /\ RequestTimeout(c, id)
    \/ \E c \in 1..MaxClients, id \in 1..MaxRequestId : ~GoodClient(c) /\ WriteError(c, id)
    \/ \E c \in 1..MaxClients, id \in 1..MaxRequestId : WriteFlushed(c, id)
    \/ \E c \in 1..MaxClients : ~GoodClient(c) /\ ProcessExit(c)
    \/ \E c \in 1..MaxClients : StdoutClose(c)
    \/ \E k \in 1..MaxCycles : ReconnectTimer(k)
    \/ HealthCheck
    \/ WritesDone /\ AnswersInTime /\ Tick

SpecSilent == InitPair /\ [][NextSilent]_vars /\ WF_vars(NextSilent)

\* SpecModularStartup: the startup of the modular orchestrator when the
\* second endpoint in the config, ModularGood, has a running container and a
\* backend that completes the handshake, and the first behaves in any way.
\* Its loop reaches ModularGood only after the connect of the first endpoint
\* has settled, so besides the steps of ModularGood this specification takes
\* as fair the end of a container check, the write callbacks, the passing of
\* time and the timeout callbacks.
ModularGood == "beta"

ModularGoodClient(c) == c \in DOMAIN clients /\ clients[c].name = ModularGood

ModularGoodInTime ==
    \A c \in DOMAIN clients : \A id \in DOMAIN clients[c].calls :
        (clients[c].name = ModularGood /\ clients[c].calls[id].timeout # NoTimer) =>
            clients[c].calls[id].timeout > TickMs

ModularGoodStep ==
    \/ modular.at \in DOMAIN modular.configs /\ modular.configs[modular.at] = ModularGood
          /\ ModularContainerCheckDone(TRUE)
    \/ \E c \in 1..MaxClients, msg \in Messages :
          /\ ModularGoodClient(c)
          /\ msg.id \in clients[c].pendingRequests /\ ~msg.isError
          /\ StdoutData(c, msg)

ModularOtherCheckDone ==
    \E running \in BOOLEAN :
        /\ modular.at \in DOMAIN modular.configs /\ modular.configs[modular.at] # ModularGood
        /\ ModularContainerCheckDone(running)

ModularWriteCallback ==
    \/ \E c \in 1..MaxClients, id \in 1..MaxRequestId :
          ~ModularGoodClient(c) /\ ModularWriteError(c, id)
    \/ \E c \in 1..MaxClients, id \in 1..MaxRequestId : WriteFlushed(c, id)

ModularTimeout ==
    \E c \in 1..MaxClients, id \in 1..MaxRequestId : ~ModularGoodClient(c) /\ RequestTimeout(c, id)

ModularStdoutClose == \E c \in 1..MaxClients : StdoutClose(c)

ModularTick == WritesDone /\ ModularGoodInTime /\ Tick

NextModularStartup ==
    \/ ModularGoodStep
    \/ ModularOtherCheckDone
    \/ \E c \in 1..MaxClients, msg \in Messages : ~ModularGoodClient(c) /\ StdoutData(c, msg)
    \/ ModularTimeout
    \/ ModularWriteCallback
    \/ \E c \in 1..MaxClients : ~ModularGoodClient(c) /\ ModularProcessExit(c)
    \/ ModularStdoutClose
    \/ ModularHealthCheck
    \/ ModularTick

SpecModularStartup ==
    /\ InitModular /\ [][NextModularStartup]_vars
    /\ WF_vars(ModularGoodStep) /\ WF_vars(ModularOtherCheckDone)
    /\ WF_vars(ModularWriteCallback) /\ WF_vars(ModularTimeout)
    /\ WF_vars(ModularStdoutClose) /\ WF_vars(ModularTick)

\* under SpecModularStartup, ModularGood eventually is Ready and registered
ModularGoodBecomesReady ==
    <>(mcpClients[ModularGood] # 0 /\ clients[mcpClients[ModularGood]].isReady)

--------------------------------------------------------------------------
(* Properties *)

\* the call (c, id) has been resolved: its id was issued and its promise is
\* settled (or its record is already dropped)
Resolved(c, id) ==
    /\ id \in 1..clients[c].requestId
    /\ id \in DOMAIN clients[c].calls => clients[c].calls[id].slot # "unresolved"

\* this step settles no promise of client c and leaves its pendingRequests and
\* the timers of its pending calls as they are
NoCallTouched(c) ==
    /\ clients'[c].pendingRequests = clients[c].pendingRequests
    /\ \A id \in DOMAIN clients[c].calls :
          clients[c].calls[id].slot = "unresolved" =>
              /\ id \in DOMAIN clients'[c].calls
              /\ clients'[c].calls[id].slot = "unresolved"
              /\ clients'[c].calls[id].timeout = clients[c].calls[id].timeout

\* C1: the result slot of a call made through sendMCPRequest is resolved at
\* most once, whatever the order of the response, the timeout and the write
\* error: a settled slot never changes; and a response that arrives for an id
\* that is already resolved (a duplicate, or one after the timeout) resolves no
\* call and changes no pending entry.
C1_ResolvedAtMostOnce ==
    [][ /\ \A c \in DOMAIN clients : \A id \in DOMAIN clients[c].calls :
              (clients[c].calls[id].slot # "unresolved" /\ id \in DOMAIN clients'[c].calls)
                  => clients'[c].calls[id].slot = clients[c].calls[id].slot
        /\ \A c \in DOMAIN clients : \A msg \in Messages :
              (Resolved(c, msg.id) /\ StdoutData(c, msg)) => NoCallTouched(c)
      ]_vars

\* C1 witness: a call whose timeout has fired while its write callback is still
\* to run, so that a second resolver is yet to reach the settled slot
C1_Witness ==
    \E c \in DOMAIN clients : \E id \in DOMAIN clients[c].calls :
        /\ clients[c].calls[id].slot = "timeout"
        /\ clients[c].calls[id].writeCb

\* C2: when a process exits, or stop() is called, every call pending on the
\* connection fails in that very step: its entry leaves pendingRequests and its
\* promise is settled.
C2_PendingFailOnClose ==
    [][ LET Failed(c) ==
                /\ clients'[c].pendingRequests = {}
                /\ \A id \in DOMAIN clients'[c].calls :
                      clients'[c].calls[id].slot # "unresolved"
        IN  /\ \A c \in DOMAIN clients :
                  (clients[c].process /\ ~clients'[c].process) => Failed(c)
            /\ (~stopped /\ stopped') =>
                  \A n \in Endpoints : mcpClients[n] # 0 => Failed(mcpClients[n])
      ]_vars

\* C3: in every step in which a Ready connection stops being Ready (a failed
\* health probe, an exit event or an error event), a reconnect timer is armed
\* for it.
C3_DegradedSchedulesReconnect ==
    [][ \A c \in DOMAIN clients :
            (clients[c].isReady /\ ~clients'[c].isReady) =>
                /\ Len(cycles') = Len(cycles) + 1
                /\ cycles'[Len(cycles')].from = c
                /\ cycles'[Len(cycles')].phase = "timer"
      ]_vars

\* C4: at most one reconnection cycle (a pending reconnect timer or a
\* connectToDockerMCP started by one) is in flight for the endpoint.
C4_OneReconnectCycle ==
    Cardinality({k \in DOMAIN cycles : cycles[k].kind = "reconnect"}) <= 1

\* C5: a connection found in mcpClients is Ready only if its process (the one
\* its handshake ran on) has not exited.
C5_ReadyOnlyOnLiveProcess ==
    \A n \in Endpoints :
        (mcpClients[n] # 0 /\ clients[mcpClients[n]].isReady)
            => ~clients[mcpClients[n]].exited

\* C6: once 5 reconnection cycles in a row have failed no connect attempt is
\* started any more, and no more than 5 fail without a Ready in between.
C6_StopsAfterMaxAttempts ==
    [][ /\ failed >= maxReconnectAttempts =>
               ~(\E k \in DOMAIN cycles : ReconnectTimer(k))
        /\ failed' <= maxReconnectAttempts
      ]_vars

\* 5s, 10s, 20s, 40s, 60s
DelayTable == <<5000, 10000, 20000, 40000, 60000>>

\* this step arms a reconnect timer (scheduleReconnect appends it to cycles)
TimerArmed ==
    /\ cycles' # <<>>
    /\ cycles'[Len(cycles')].phase = "timer"
    /\ cycles'[Len(cycles')].waited = 0
    /\ cycles'[Len(cycles')].rem > 0
    /\ \/ Len(cycles') > Len(cycles)
       \/ cycles'[Len(cycles')] # cycles[Len(cycles)]

\* C7: the connect attempt scheduled when the attempt counter is n starts
\* after min(5s * 2^n, 60s): the timer is armed for the counter's value at that
\* moment, and the time it has waited plus the time it has left is the table's
\* entry for n, for n = 0..4.
C7_ReconnectDelay ==
    [][ /\ \A k \in DOMAIN cycles' : cycles'[k].kind = "reconnect" =>
              /\ cycles'[k].attempts \in 0..4
              /\ cycles'[k].phase = "timer" =>
                    cycles'[k].waited + cycles'[k].rem = DelayTable[cycles'[k].attempts + 1]
              /\ cycles'[k].phase # "timer" =>
                    cycles'[k].waited = DelayTable[cycles'[k].attempts + 1]
        /\ TimerArmed =>
              cycles'[Len(cycles')].attempts = reconnectAttempts'[Config.name]
      ]_vars

\* C7 witness: the connect attempt for counter value 4 has started, 60s after
\* its timer was armed
C7_Witness ==
    \E k \in DOMAIN cycles :
        /\ cycles[k].kind = "reconnect" /\ cycles[k].phase = "check"
        /\ cycles[k].attempts = 4 /\ cycles[k].waited = 60000

\* this step makes a connection Ready
ReadyReached ==
    \E c \in DOMAIN clients' :
        clients'[c].isReady /\ (c \in DOMAIN clients => ~clients[c].isReady)

\* C8: the attempt counter goes up by exactly one in every step in which a
\* reconnection cycle fails, is zero when the endpoint reaches Ready, and
\* otherwise never goes down, skips a value or is set again.
C8_CounterStepsByOne ==
    [][ \A n \in Endpoints :
            /\ failed' = failed + 1 => reconnectAttempts'[n] = reconnectAttempts[n] + 1
            /\ ReadyReached => reconnectAttempts'[n] = 0
            /\ ~ReadyReached =>
                   reconnectAttempts'[n] \in {reconnectAttempts[n], reconnectAttempts[n] + 1}
      ]_vars

\* C9: a call fails with a timeout only once its configured timeout has passed
\* since it was issued; its entry is then out of pendingRequests, and a response
\* that arrives for its id afterwards touches no call.
C9_TimeoutNotEarly ==
    [][ /\ \A c \in DOMAIN clients' : \A id \in DOMAIN clients'[c].calls :
              clients'[c].calls[id].slot = "timeout" =>
                  /\ clients'[c].calls[id].age >= TimeoutMs
                  /\ id \notin clients'[c].pendingRequests
        /\ \A c \in DOMAIN clients : \A msg \in Messages :
              ( /\ msg.id \in DOMAIN clients[c].calls
                /\ clients[c].calls[msg.id].slot = "timeout"
                /\ StdoutData(c, msg) ) => NoCallTouched(c)
      ]_vars

\* C9 witness: a call that was never answered has failed with a timeout
C9_Witness ==
    \E c \in DOMAIN clients : \E id \in DOMAIN clients[c].calls :
        /\ clients[c].calls[id].slot = "timeout"
        /\ clients[c].calls[id].age = TimeoutMs
        /\ id \notin clients[c].pendingRequests

\* waitForProcessReady is listening on the stdout of connection c
WaitingForReady(c) ==
    \E k \in DOMAIN cycles : cycles[k].client = c /\ cycles[k].phase = "wait"

C11_IdsIncrease ==
    [][ \A c \in DOMAIN clients :
            /\ clients'[c].requestId >= clients[c].requestId
            /\ \A id \in clients'[c].pendingRequests \ clients[c].pendingRequests :
                  /\ id > clients[c].requestId
                  /\ id <= clients'[c].requestId
      ]_vars

\* C11 witness: calls of two concurrent callers (a fan-out step and a health
\* probe) are outstanding on one connection
C11_Witness ==
    \E c \in DOMAIN clients : \E i, j \in clients[c].pendingRequests :
        /\ i < j
        /\ clients[c].calls[i].caller # clients[c].calls[j].caller

\* C12: whatever calls are outstanding on a connection and in whatever order
\* their responses arrive, a response resolves the call with its own id and no
\* other: that call succeeds when the response has no error object and fails
\* with the remote error when it has one, and every other outstanding call
\* stays outstanding.
C12_ResolvedByOwnResponse ==
    [][ \A c \in DOMAIN clients : \A msg \in Messages :
            ( /\ msg.id \in clients[c].pendingRequests
              /\ StdoutData(c, msg) ) =>
                /\ clients'[c].calls[msg.id].slot =
                       IF msg.isError THEN "remoteError" ELSE "ok"
                /\ msg.id \notin clients'[c].pendingRequests
                /\ \A j \in clients[c].pendingRequests \ {msg.id} :
                      /\ j \in clients'[c].pendingRequests
                      /\ clients'[c].calls[j].slot = "unresolved"
      ]_vars

\* C12 witness: of two outstanding calls the later one has been answered
\* first (with an error), the earlier one is still outstanding
C12_Witness ==
    \E c \in DOMAIN clients : \E i \in clients[c].pendingRequests :
        \E j \in DOMAIN clients[c].calls :
            /\ i < j
            /\ clients[c].calls[i].slot = "unresolved"
            /\ clients[c].calls[j].slot = "remoteError"

\* C13: whichever way the bytes of an output are cut into stdout chunks, the
\* frame reader hands the same sequence of parsed messages to handleMCPResponse
\* and ends with the same messageBuffer: two readers that have consumed the
\* same bytes agree.
C13_ChunkingInvariant ==
    (reader.pos[1] = Len(reader.bytes) /\ reader.pos[2] = Len(reader.bytes)) =>
        /\ reader.delivered[1] = reader.delivered[2]
        /\ reader.messageBuffer[1] = reader.messageBuffer[2]

\* the ExecutionResult at index i of results is the result of step i of the
\* plan: it carries that step's id and endpoint, and it is a success exactly
\* when the step's call (if its record is still there) was resolved with a result
ResultOfStep(i) ==
    /\ batch.results[i].step = i
    /\ batch.results[i].mcp = batch.plan[i]
    /\ batch.results[i].status \in {"success", "error"}
    /\ LET c  == batch.call[i][1]
           id == batch.call[i][2]
       IN  IF c = 0 THEN batch.results[i].status = "error"
           ELSE id \in DOMAIN clients[c].calls =>
                    (batch.results[i].status = "success" <=> clients[c].calls[id].slot = "ok")

\* C14: a parallel fan-out that has completed returns exactly one
\* ExecutionResult per step of the plan, the result of step i at index i,
\* whatever order the steps completed in and whichever of them failed.
C14_ParallelResultPerStep ==
    (batch.phase = "done" /\ batch.parallel) =>
        /\ Len(batch.results) = Len(batch.plan)
        /\ \A i \in DOMAIN batch.plan : ResultOfStep(i)

\* C14 witness: a parallel fan-out has completed in which an earlier step timed
\* out after a later step had succeeded, and one step had no endpoint
C14_Witness ==
    /\ batch.phase = "done" /\ batch.parallel
    /\ \E i, j, k \in DOMAIN batch.results :
          /\ i < j
          /\ batch.results[i].error = "timeout"
          /\ batch.results[j].status = "success"
          /\ batch.results[k].error = "MCP not available"

\* C15: in a sequential fan-out the request of a step is written only when the
\* results of all the steps before it have been recorded; a step that fails
\* does not stop the loop: once the result of step i is recorded, step i + 1 is
\* issued whatever the result was, and the completed batch has the result of
\* every step, in plan order.
C15_SequentialOneAtATime ==
    (batch.phase # "none" /\ ~batch.parallel) =>
        /\ \A j \in DOMAIN batch.plan :
              batch.state[j] # "notIssued" => Len(batch.results) >= j - 1
        /\ \A j \in DOMAIN batch.plan :
              batch.state[j] = "pending" =>
                  /\ Len(batch.results) = j - 1
                  /\ batch.call[j][2] \in clients[batch.call[j][1]].pendingRequests
        /\ \A i \in DOMAIN batch.results :
              i < Len(batch.plan) => batch.state[i + 1] # "notIssued"
        /\ \A i \in DOMAIN batch.results : ResultOfStep(i)
        /\ batch.phase = "done" => Len(batch.results) = Len(batch.plan)

\* C15 witness: a sequential fan-out has completed whose first step failed with
\* a timeout and whose later step was still issued and succeeded
C15_Witness ==
    /\ batch.phase = "done" /\ ~batch.parallel
    /\ Len(batch.results) >= 2
    /\ batch.results[1].error = "timeout"
    /\ \E j \in DOMAIN batch.results : j > 1 /\ batch.results[j].status = "success"

\* this step starts executeTask for step i of the plan
Issued(i) ==
    /\ batch'.state[i] # "notIssued"
    /\ i \in DOMAIN batch.state => batch.state[i] = "notIssued"

\* the endpoint has no entry in mcpClients or its connection is not Ready
Unavailable(name) ==
    \/ name \notin DOMAIN mcpClients
    \/ mcpClients[name] = 0
    \/ ~clients[mcpClients[name]].isReady

\* the calls this step registers for steps of the plan
NewStepCalls ==
    {call \in (DOMAIN clients') \X (1..MaxRequestId) :
        /\ call[2] \in clients'[call[1]].pendingRequests
        /\ call[1] \in DOMAIN clients => call[2] \notin clients[call[1]].pendingRequests
        /\ clients'[call[1]].calls[call[2]].caller = "orchestrateTask"}

\* a step on an unavailable endpoint gets an "error" result with the given
\* message at once and no call is made for it: the only calls registered and
\* the only request ids allocated are those of the steps on available
\* endpoints; a completed batch has a result for every step
UnavailableStepFails(message) ==
    LET issued == {i \in DOMAIN batch'.plan : Issued(i)} IN
    /\ \A i \in issued : Unavailable(batch'.plan[i]) =>
          /\ batch'.state[i] = "settled"
          /\ batch'.promised[i].status = "error"
          /\ batch'.promised[i].error = message
          /\ batch'.call[i] = <<0, 0>>
    /\ issued # {} =>
          /\ NewStepCalls = {batch'.call[i] : i \in issued} \ {<<0, 0>>}
          /\ \A c \in DOMAIN clients :
                clients'[c].requestId = clients[c].requestId
                    + Cardinality({call \in NewStepCalls : call[1] = c})
    /\ batch'.phase = "done" => Len(batch'.results) = Len(batch'.plan)

\* C16 as stated: a step whose endpoint is missing or not Ready yields status
\* "error" with the message "endpoint not available", no call is attempted for
\* it (no request id, no pending call, nothing written), and the other steps
\* of the batch complete.
C16_UnavailableStep ==
    [][UnavailableStepFails("endpoint not available")]_vars

\* C16, amended: the same with the message executeTask gives,
\* "MCP not available".
C16_UnavailableStepMCPMessage ==
    [][UnavailableStepFails("MCP not available")]_vars

\* C16 witness: a completed batch in which a step on a registered endpoint that
\* was not Ready and a step on a missing endpoint failed as unavailable and
\* another step succeeded
C16_Witness ==
    /\ batch.phase = "done"
    /\ \E i, j, k \in DOMAIN batch.results :
          /\ batch.results[i].error = "MCP not available" /\ batch.plan[i] \in Endpoints
          /\ batch.results[j].error = "MCP not available" /\ batch.plan[j] \notin Endpoints
          /\ batch.results[k].status = "success"

\* C17: stop() terminates every backend process that has been spawned, whether
\* its client is in mcpClients or still connecting, and once stop() has been
\* called no process is spawned and no connection becomes Ready.
C17_ClosedForGood ==
    [][ /\ (~stopped /\ stopped') =>
              \A c \in DOMAIN clients : clients[c].process => clients'[c].killed
        /\ stopped =>
              /\ Len(clients') = Len(clients)
              /\ \A c \in DOMAIN clients : clients'[c].isReady => clients[c].isReady
      ]_vars

\* C18: no timer outlives its owner: a client whose process has exited has no
\* request timeout timer armed, and once stop() has been called neither the
\* health interval nor a request timeout timer nor a reconnect timer is armed.
C18_NoTimerOutlivesOwner ==
    /\ \A c \in DOMAIN clients : ~clients[c].process =>
          \A id \in DOMAIN clients[c].calls : clients[c].calls[id].timeout = NoTimer
    /\ stopped =>
          /\ healthCheckInterval = NoTimer
          /\ \A c \in DOMAIN clients : \A id \in DOMAIN clients[c].calls :
                clients[c].calls[id].timeout = NoTimer
          /\ \A k \in DOMAIN cycles : cycles[k].phase # "timer"

\* the number of reconnect timers that are armed
ArmedReconnects(cs) == Cardinality({k \in DOMAIN cs : cs[k].phase = "timer"})

\* C19: when a handshake step of a connect fails (initialize or initialized is
\* rejected or times out), the connection is not Ready and, unless the attempts
\* are used up, a reconnect timer is armed in that step, on the startup connect
\* as on a reconnect.
C19_HandshakeFailureRetried ==
    [][ \A k \in DOMAIN cycles :
            LET c == cycles[k].client IN
            ( /\ cycles[k].phase \in {"initialize", "initialized"}
              /\ \A j \in DOMAIN cycles' : cycles'[j].client # c
              /\ mcpClients'[clients[c].name] # c ) =>
                /\ ~clients'[c].isReady
                /\ reconnectAttempts'[clients[c].name] < maxReconnectAttempts =>
                       ArmedReconnects(cycles') > ArmedReconnects(cycles)
      ]_vars

\* C20: initialized is a notification: no PendingCall is ever registered for
\* it and the handshake never waits for a response to it, so that a connect
\* whose initialize result has arrived is Ready once initialized is written.
C20_InitializedIsNotification ==
    /\ \A c \in DOMAIN clients : \A id \in clients[c].pendingRequests :
           clients[c].calls[id].method # "initialized"
    /\ \A k \in DOMAIN cycles : cycles[k].phase # "initialized"

\* C21: a client created by connectToDockerMCP (at startup or on a reconnect)
\* starts with its request counter at 0, not Ready and not in mcpClients; the
\* first request written to its process carries id 1; and it turns Ready only
\* in the step in which the initialized call of its own handshake resolves.
C21_ReattachedStartsAtOne ==
    [][ \A c \in DOMAIN clients' :
          /\ c \notin DOMAIN clients =>
                /\ clients'[c].requestId = 0
                /\ ~clients'[c].isReady
                /\ mcpClients'[clients'[c].name] # c
          /\ (c \in DOMAIN clients /\ clients[c].requestId = 0
                                   /\ clients'[c].requestId # 0) =>
                /\ clients'[c].requestId = 1
                /\ 1 \in DOMAIN clients'[c].calls
                /\ clients'[c].calls[1].method = "initialize"
          /\ (c \in DOMAIN clients /\ ~clients[c].isReady /\ clients'[c].isReady) =>
                \E id \in clients[c].pendingRequests :
                    /\ clients[c].calls[id].method = "initialized"
                    /\ id \in DOMAIN clients'[c].calls
                    /\ clients'[c].calls[id].slot = "ok"
      ]_vars

\* C21 witness: the process of the first client has exited and a second
\* client, created by a reconnect, is Ready and in mcpClients after the two
\* requests of its handshake
C21_Witness ==
    /\ Len(clients) = 2
    /\ clients[1].exited
    /\ clients[2].isReady
    /\ clients[2].requestId = 2
    /\ mcpClients[clients[2].name] = 2

\* C27: once startup is over (initialize() has armed the health interval),
\* the registry holds a Connection for every configured endpoint, whether the
\* endpoint is connected, disconnected or failed its first connect.
C27_RegistryHoldsEveryEndpoint ==
    healthCheckInterval # NoTimer =>
        \A n \in Endpoints : mcpClients[n] # 0

\* C30: every entry of a client's pendingRequests belongs to a call whose
\* promise is unresolved and whose timeout timer is armed (a response, a
\* timeout or a write error that resolves a call removes its entry in the same
\* step).
C30_PendingAreUnresolved ==
    \A c \in DOMAIN clients : \A id \in clients[c].pendingRequests :
        /\ id \in DOMAIN clients[c].calls
        /\ clients[c].calls[id].slot = "unresolved"
        /\ clients[c].calls[id].timeout # NoTimer

\* C30 witness: on one client a call resolved by its response has left
\* pendingRequests while a later call, whose timer is due, is still pending
C30_Witness ==
    \E c \in DOMAIN clients : \E i, k \in DOMAIN clients[c].calls :
        /\ i < k
        /\ clients[c].calls[i].slot = "ok" /\ i \notin clients[c].pendingRequests
        /\ k \in clients[c].pendingRequests /\ clients[c].calls[k].timeout = 0

\* C26: on every client the requests stand on stdin in the order in which
\* sendMCPRequest was called: the i-th request written carries id i, so the
\* ids on the stream increase and every id issued so far has been written.
C26_WrittenInCallOrder ==
    \A c \in DOMAIN clients :
        /\ Len(clients[c].stdin) = clients[c].requestId
        /\ \A i \in DOMAIN clients[c].stdin : clients[c].stdin[i].id = i

\* C26 witness: a ping of the health check and, called after it, a tools/call
\* of executeTask are pending together on one client
C26_Witness ==
    \E c \in DOMAIN clients : \E i, j \in clients[c].pendingRequests :
        /\ i < j
        /\ clients[c].calls[i].method = "ping"
        /\ clients[c].calls[j].method = "tools/call"
        /\ clients[c].stdin[i].id = i /\ clients[c].stdin[j].id = j

\* a ping pending on client c settles in this step
PingSettles(c) ==
    \E id \in DOMAIN clients[c].calls :
        /\ clients[c].calls[id].method = "ping"
        /\ clients[c].calls[id].slot = "unresolved"
        /\ id \in DOMAIN clients'[c].calls
        /\ clients'[c].calls[id].slot # "unresolved"

\* a ping is written to client d in this step
PingIssued(d) ==
    /\ clients'[d].requestId > clients[d].requestId
    /\ clients'[d].calls[clients'[d].requestId].method = "ping"

\* C23: the health monitor issues the ping of a connection without waiting
\* for the probe of another connection: no ping is written to one client in
\* the step in which the ping of another client settles (all pings of a round
\* are written when the interval fires).
C23_ProbesDoNotWait ==
    [][ \A c, d \in DOMAIN clients :
            c # d => ~(PingSettles(c) /\ PingIssued(d)) ]_vars

\* C25: every request written to the stdin of a process is ended by a
\* newline, so that consecutive requests on the stream are separated.
C25_RequestsEndWithNewline ==
    \A c \in DOMAIN clients : \A i \in DOMAIN clients[c].stdin : clients[c].stdin[i].nl

\* C29: once the write callback of a request has run with an error and
\* rejected the call, pendingRequests holds no entry for the id and the timeout
\* timer of the call is not armed.
C29_WriteErrorRemovesCall ==
    \A c \in DOMAIN clients : \A id \in DOMAIN clients[c].calls :
        clients[c].calls[id].slot = "writeError" =>
            /\ id \notin clients[c].pendingRequests
            /\ clients[c].calls[id].timeout = NoTimer

\* what belongs to endpoint m in state s: its reconnect counter, its registry
\* entry, its reconnect cycles, and of each of its clients the request
\* counter, the readiness flag, the process handle, the requests written and
\* the pending calls with their timers
OfEndpoint(s, m) ==
    LET Mine(cyc) == cyc.name = m IN
    [attempts |-> s.reconnectAttempts[m],
     registry |-> s.mcpClients[m],
     cycles   |-> SelectSeq(s.cycles, Mine),
     clients  |-> [c \in {x \in DOMAIN s.clients : s.clients[x].name = m} |->
                      [requestId |-> s.clients[c].requestId,
                       isReady   |-> s.clients[c].isReady,
                       process   |-> s.clients[c].process,
                       stdin     |-> s.clients[c].stdin,
                       pendingRequests |->
                           [id \in s.clients[c].pendingRequests |-> s.clients[c].calls[id]]]]]

\* the state after the step
After ==
    [clients |-> clients', cycles |-> cycles', mcpClients |-> mcpClients',
     reconnectAttempts |-> reconnectAttempts',
     healthCheckInterval |-> healthCheckInterval',
     stopped |-> stopped', failed |-> failed', dropped |-> dropped',
     batch |-> batch', lastHealthCheck |-> lastHealthCheck', modular |-> modular']

\* the step is an event on endpoint n: output, a timeout, a write callback,
\* the exit or an error of one of its processes, or a step of one of its
\* reconnect cycles
EventOn(n) ==
    \/ \E c \in DOMAIN clients :
          /\ clients[c].name = n
          /\ \/ ProcessExit(c)
             \/ \E id \in DOMAIN clients[c].calls :
                   RequestTimeout(c, id) \/ WriteError(c, id) \/ WriteFlushed(c, id)
             \/ \E msg \in Messages : StdoutData(c, msg)
    \/ \E k \in DOMAIN cycles :
          /\ cycles[k].name = n
          /\ \/ \E running \in BOOLEAN : ContainerCheckDone(k, running)
             \/ ReconnectTimer(k) \/ WaitReadyTimeout(k)

\* C24: connections are isolated.  An event on one endpoint leaves everything
\* that belongs to another endpoint unchanged; in a round of the health
\* interval each endpoint ends as it would have if it were probed alone; and
\* an endpoint whose process exits while its attempts are not used up gets
\* its reconnect timer, whatever the attempts of the other endpoints.
C24_ConnectionsIsolated ==
    [][ /\ \A m \in DOMAIN mcpClients :
              \/ OfEndpoint(After, m) = OfEndpoint(Cur, m)
              \/ /\ \A n \in DOMAIN mcpClients \ {m} : ~EventOn(n)
                 /\ (healthCheckInterval = 0 /\ healthCheckInterval' = HealthIntervalMs) =>
                       OfEndpoint(After, m) = OfEndpoint(healthCheckOne(Cur, m), m)
        /\ \A c \in DOMAIN clients :
              ( /\ ~clients[c].exited /\ clients'[c].exited
                /\ reconnectAttempts[clients[c].name] < maxReconnectAttempts ) =>
                  \E k \in DOMAIN cycles' :
                      /\ cycles'[k].from = c /\ cycles'[k].phase = "timer"
                      /\ cycles'[k].waited = 0
      ]_vars

\* C24 witness: the attempts of alpha are used up while beta, whose process
\* has exited, has its reconnect timer just armed and a call still pending
C24_Witness ==
    /\ reconnectAttempts["alpha"] = maxReconnectAttempts
    /\ \E k \in DOMAIN cycles :
          /\ cycles[k].name = "beta" /\ cycles[k].phase = "timer" /\ cycles[k].waited = 0
    /\ \E c \in DOMAIN clients :
          clients[c].name = "beta" /\ clients[c].pendingRequests # {}

\* C22: at startup an endpoint whose container is running and whose backend
\* completes the handshake eventually is Ready and registered, whatever the
\* other endpoint does: fail, hang until its timeouts, or never get past its
\* container check.
C22_GoodEndpointBecomesReady ==
    <>(mcpClients[Good] # 0 /\ clients[mcpClients[Good]].isReady)

\* C22 witness: Good is Ready at the end of startup although the startup
\* connect of the other endpoint has failed
C22_Witness ==
    /\ mcpClients[Good] # 0 /\ clients[mcpClients[Good]].isReady
    /\ \E n \in DOMAIN mcpClients : n # Good /\ mcpClients[n] = 0 /\ reconnectAttempts[n] = 1
    /\ healthCheckInterval = HealthIntervalMs

\* the k-th smallest element of a set of numbers
RECURSIVE Nth(_, _)
Nth(S, k) ==
    LET m == CHOOSE x \in S : \A y \in S : x <= y IN
    IF k = 1 THEN m ELSE Nth(S \ {m}, k - 1)

\* the lines of text that a newline closes, trimmed, in order
LinesOf(text) ==
    LET nls == {i \in DOMAIN text : text[i] = "nl"}
        From(k) == IF k = 1 THEN 1 ELSE Nth(nls, k - 1) + 1
    IN  [k \in 1..Cardinality(nls) |-> trim(SubSeq(text, From(k), Nth(nls, k) - 1))]

\* the lines of text that are messages: not blank and well-formed JSON
MessagesOf(text) ==
    LET IsMessage(line) == line # <<>> /\ JSONparse(line) IN
    SelectSeq(LinesOf(text), IsMessage)

\* C28: a line that fails to parse is dropped and nothing else: after a data
\* event the messages handed to handleMCPResponse are exactly the well-formed
\* lines of the buffered text with the chunk, those before and those after a
\* malformed line alike, in their order; the rest of the text stays buffered
\* and the client's readiness flag and pending map are as they were.
C28_MalformedLineDropped ==
    [][ reader'.pos[1] # reader.pos[1] =>
          LET data == SubSeq(reader.bytes, reader.pos[1] + 1, reader'.pos[1])
              text == reader.messageBuffer[1] \o BufferToString(data)
          IN  /\ reader'.delivered[1] = reader.delivered[1] \o MessagesOf(text)
              /\ reader'.messageBuffer[1] = AfterLastNewline(text)
              /\ clients' = clients
      ]_vars

\* C28 witness: one chunk held a well-formed line, a malformed line and
\* another well-formed line; the two well-formed ones were delivered, in order
C28_Witness ==
    /\ reader.bytes = Encode(<<"x", "nl", "b", "nl", "e", "nl">>)
    /\ reader.pos[1] = Len(reader.bytes)
    /\ reader.delivered[1] = << <<"x">>, <<"e">> >>
    /\ reader.messageBuffer[1] = <<>>

\* the processes spawned for endpoint n that have not exited
Alive(n) == {c \in DOMAIN clients : clients[c].name = n /\ ~clients[c].exited}

\* C31: at most one process spawned for an endpoint is alive, and a live
\* process belongs to the connect in flight that spawned it or to the entry of
\* the registry: none is left running, handlers attached, after its handshake
\* failed or timed out.
C31_OneLiveProcess ==
    \A n \in Endpoints :
        /\ Cardinality(Alive(n)) <= 1
        /\ \A c \in Alive(n) : CycleOf(Cur, c) # 0 \/ mcpClients[n] = c

\* C32: a backend that stays silent until it receives initialize and then
\* answers every request it receives eventually becomes Ready (initialize is
\* written to the new process without waiting for output of it).
C32_SilentBackendBecomesReady ==
    <>(\E c \in DOMAIN clients : clients[c].name = Good /\ clients[c].isReady)

\* the callers that are the periodic health monitor, in the two orchestrators
Monitors == {"startHealthChecks", "modular.startHealthChecks"}

\* C33: the periodic monitor writes a ping only to a connection whose isReady
\* is true when the round probes it, and lastHealthCheck of a connection
\* changes only in the step in which a ping of the monitor on that connection
\* succeeds; a failed probe, a skipped one and every other call leave it.
C33_ProbeReadyStampOnSuccess ==
    [][ \A c \in DOMAIN clients :
          /\ \A id \in DOMAIN clients'[c].calls :
                (id > clients[c].requestId /\ clients'[c].calls[id].caller \in Monitors) =>
                    /\ clients[c].isReady
                    /\ clients'[c].calls[id].method = "ping"
          /\ lastHealthCheck'[c] # lastHealthCheck[c] =>
                LET id == lastHealthCheck'[c] IN
                /\ id \in DOMAIN clients[c].calls
                /\ clients[c].calls[id].caller \in Monitors
                /\ clients[c].calls[id].method = "ping"
                /\ clients[c].calls[id].slot = "unresolved"
                /\ clients'[c].calls[id].slot = "ok"
      ]_vars

\* C33 witness: the ping of one round succeeded and wrote lastHealthCheck, the
\* ping of the next round timed out and lastHealthCheck is still the first one
C33_Witness ==
    /\ lastHealthCheck[1] = 3
    /\ 4 \in DOMAIN clients[1].calls
    /\ clients[1].calls[4].caller = "startHealthChecks"
    /\ clients[1].calls[4].slot = "timeout"
    /\ ~clients[1].isReady

\* C34: a process is spawned only by the step in which a container check ends
\* and reports the container running, one process per check; when the check
\* reports it not running the connect fails (the attempt is counted by the
\* caller's catch block) and no client with a process and handlers appears.
C34_SpawnOnlyAfterCheck ==
    [][ /\ Len(clients') # Len(clients) =>
              /\ Len(clients') = Len(clients) + 1
              /\ \/ \E k \in DOMAIN cycles : ContainerCheckDone(k, TRUE)
                 \/ ModularContainerCheckDone(TRUE)
        /\ \A k \in DOMAIN cycles :
              ContainerCheckDone(k, FALSE) =>
                  /\ Len(clients') = Len(clients)
                  /\ reconnectAttempts'[cycles[k].name] =
                         IF cycles[k].kind = "startup" THEN 1 ELSE cycles[k].attempts + 1
        /\ ModularContainerCheckDone(FALSE) =>
              Len(clients') = Len(clients) /\ modular'.at = modular.at + 1
      ]_vars

\* C34 witness: the startup connect succeeded, its process exited and the
\* container check of the reconnect reported the container not running: the
\* attempt is counted, no second process exists
C34_Witness ==
    /\ Len(clients) = 1 /\ clients[1].exited
    /\ mcpClients[Config.name] = 1
    /\ reconnectAttempts[Config.name] = 1
    /\ \E k \in DOMAIN cycles : cycles[k].phase = "timer" /\ cycles[k].attempts = 1

\* the tools/call requests of orchestrateTask written on client c in this step
ToolCallsWritten(c) ==
    {id \in DOMAIN clients'[c].calls :
        /\ id > clients[c].requestId
        /\ clients'[c].calls[id].caller = "orchestrateTask"}

\* whether step i of the batch had been started before this step
Started(i) == batch.phase # "none" /\ batch.state[i] # "notIssued"

NoneUnresolved ==
    \A c \in DOMAIN clients : \A id \in DOMAIN clients[c].calls :
        clients[c].calls[id].slot # "unresolved"

\* the model cannot go on: a timer is due whose callback would take the state
\* out of the bounds of the model (one more request id or reconnect timer)
Horizon ==
    \/ /\ healthCheckInterval = 0
       /\ ~WithinBounds(healthCheckAll([Swept EXCEPT !.healthCheckInterval = HealthIntervalMs],
                                       DOMAIN mcpClients))
    \/ \E c \in DOMAIN clients : \E id \in DOMAIN clients[c].calls :
          clients[c].calls[id].timeout = 0 /\ ~WithinBounds(onTimeout(Swept, c, id))

\* C36: every call eventually settles, whatever the backend does.  A call is
\* unresolved from its issue to its settling and at most MaxRequestId calls are
\* issued on a client, so the calls all settle exactly when, again and again,
\* no call is unresolved (up to the horizon of the model).
C36_EveryCallSettles == []<>(NoneUnresolved \/ Horizon)

\* C36 witness: a ping was written to a process that exited without answering
\* and was replaced by a reconnect whose process is registered and Ready; the
\* ping has settled by its timeout
C36_Witness ==
    /\ Len(clients) = 2 /\ clients[1].exited
    /\ 3 \in DOMAIN clients[1].calls /\ clients[1].calls[3].slot = "timeout"
    /\ mcpClients[Config.name] = 2 /\ clients[2].isReady

\* the calls (client, id) that a response resolves in this step
ResolvedByResponse ==
    {p \in (DOMAIN clients) \X (1..MaxRequestId) :
        /\ p[2] \in DOMAIN clients[p[1]].calls
        /\ clients[p[1]].calls[p[2]].slot = "unresolved"
        /\ p[2] \in DOMAIN clients'[p[1]].calls
        /\ clients'[p[1]].calls[p[2]].slot \in {"ok", "remoteError"}}

\* C37: a call is resolved by a response only in a data event of the process
\* the call was written to, carrying the id of the call; the output of another
\* process of the endpoint, older or newer, resolves nothing of it although
\* the ids of the two are the same numbers.
C37_ResolvedByOwnProcess ==
    [][ \A p \in ResolvedByResponse :
          /\ \E i \in DOMAIN clients[p[1]].stdin : clients[p[1]].stdin[i].id = p[2]
          /\ \E isError \in BOOLEAN : StdoutData(p[1], [id |-> p[2], isError |-> isError])
          /\ \A q \in ResolvedByResponse : q = p
      ]_vars

\* C37 witness: the first process exited with its initialize (id 1) pending;
\* the process of the reconnect was sent its own initialize (id 1) and has
\* answered it, and the call of the first process is still pending
C37_Witness ==
    /\ Len(clients) = 2 /\ clients[1].exited
    /\ 1 \in clients[1].pendingRequests
    /\ clients[1].calls[1].slot = "unresolved"
    /\ clients[2].requestId = 2 /\ 1 \notin clients[2].pendingRequests
    /\ clients[2].calls[2].method = "initialized"

\* C38: a client whose isReady flag is true has a process handle that is not
\* null: its process was spawned and no exit of it has been recorded.
C38_ReadyHasProcess ==
    \A c \in DOMAIN clients : clients[c].isReady => clients[c].process

\* a call of checkHealth is issued in this step, or one settles in it
CheckHealthActs ==
    \E c \in DOMAIN clients : \E id \in DOMAIN clients'[c].calls :
        /\ clients'[c].calls[id].caller = "checkHealth"
        /\ \/ id \notin DOMAIN clients[c].calls
           \/ /\ clients[c].calls[id].slot = "unresolved"
              /\ clients'[c].calls[id].slot # "unresolved"

\* C39: checkHealth changes no isReady flag, no lastHealthCheck and no
\* reconnect attempt counter and schedules no reconnect, neither when it
\* writes its ping nor when the ping is answered, fails or times out.
C39_CheckHealthChangesNothing ==
    [][ CheckHealthActs =>
          /\ DOMAIN clients' = DOMAIN clients
          /\ \A c \in DOMAIN clients : clients'[c].isReady = clients[c].isReady
          /\ lastHealthCheck' = lastHealthCheck
          /\ reconnectAttempts' = reconnectAttempts
          /\ cycles' = cycles
      ]_vars

\* C39 witness: a ping of checkHealth has timed out; the client is still
\* Ready, no health check is recorded for it, its attempt counter is 0 and no
\* reconnect is scheduled
C39_Witness ==
    /\ \E c \in DOMAIN clients :
          /\ clients[c].isReady
          /\ lastHealthCheck[c] = 0
          /\ \E id \in DOMAIN clients[c].calls :
                /\ clients[c].calls[id].caller = "checkHealth"
                /\ clients[c].calls[id].slot = "timeout"
    /\ cycles = <<>>
    /\ reconnectAttempts = [n \in Endpoints |-> 0]

\* C40: the reconnect attempt counter of every endpoint is one of
\* 0..maxReconnectAttempts, whatever the order in which reconnect timers fire
\* and connects fail or succeed.
C40_AttemptsWithinMax ==
    \A n \in DOMAIN reconnectAttempts :
        reconnectAttempts[n] \in 0..maxReconnectAttempts

\* C40 witness: the counter stands at maxReconnectAttempts while the connect of
\* a second timer armed for the same endpoint is still in flight
C40_Witness ==
    \E n \in DOMAIN reconnectAttempts :
        /\ reconnectAttempts[n] = maxReconnectAttempts
        /\ \E k \in DOMAIN cycles :
              cycles[k].kind = "reconnect" /\ cycles[k].name = n

============================================================================
